---- MODULE Spec2Model ----
(***************************************************************************)
(* A model of kaptinlin/jsonmerge (RFC 7386 JSON Merge Patch).             *)
(*                                                                         *)
(* Go values of type interface{} are modelled as tagged records.  A map    *)
(* (map[string]interface{}) and a slice ([]interface{}) are references     *)
(* into a heap of cells, so that the in-place writes of mergePatch, the    *)
(* aliasing of patch values into results and the deep copy taken by Merge  *)
(* are all visible.  Documents without sharing ("trees") are used for the  *)
(* inputs and for the values observed before and after a call.             *)
(***************************************************************************)
EXTENDS Naturals, Sequences, FiniteSets

VARIABLES heap, docA, docB, preA, preB, res, first, phase, opt, rep, err, calls

vars == <<heap, docA, docB, preA, preB, res, first, phase, opt, rep, err, calls>>

\* The variables of the calls on documents of a representation and of the
\* concurrent callers, which the calls of the engine leave alone.
docVars == <<rep, err, calls>>

(***************************************************************************)
(* Bounds of the model.                                                    *)
(***************************************************************************)
\* The longest array of an input document.
MaxArrLen == 2

\* The most options a call of Merge is given.
MaxOpts == 1

\* The most options a call of Merge on documents of a chosen representation
\* is given.
MaxDocOpts == 2

\* The object keys of the input documents.  SpineKey is the key under which
\* input objects hold nested containers; the other key holds scalars.
Keys == {"a", "b"}
SpineKey == "a"

(***************************************************************************)
(* JSON values.                                                            *)
(***************************************************************************)
NullV == [tag |-> "null"]
NumV(l) == [tag |-> "num", lit |-> l]
\* A string: lit is its text, a sequence of tokens.  StrV(l) is the string of
\* the one word l, RawStr(toks) the string whose text is toks.
StrV(l) == [tag |-> "str", lit |-> <<l>>]
RawStr(toks) == [tag |-> "str", lit |-> toks]
BoolV(b) == [tag |-> "bool", val |-> b]
\* A float64 that is NaN: a Go value with no JSON text.
NaNV == [tag |-> "nan"]
\* A map value: a reference to a map cell of the heap.
ObjRef(p) == [tag |-> "obj", ptr |-> p]
\* A slice value: a reference to a slice cell of the heap.
ArrRef(p) == [tag |-> "arr", ptr |-> p]
\* A document as a tree (no sharing): an object with its members.
TObj(f) == [tag |-> "obj", mem |-> f]
\* A document as a tree: an array with its elements.
TArr(s) == [tag |-> "arr", els |-> s]
\* No value (a variable that no call has set yet).
NoVal == [tag |-> "none"]
\* A nil map[string]any, as a document.
NilMap == [tag |-> "nilmap"]

MapCell(f) == [kind |-> "map", m |-> f]
SliceCell(s) == [kind |-> "slice", s |-> s]
EmptyMap == [k \in {} |-> NullV]

\* f with key k set to v (m[k] = v).
Put(f, k, v) == [x \in (DOMAIN f) \cup {k} |-> IF x = k THEN v ELSE f[x]]
\* f without key k (delete(m, k)); no effect when k is absent.
Del(f, k) == [x \in (DOMAIN f) \ {k} |-> f[x]]

\* A nil map: it reads as a map without entries.
NilCell == [kind |-> "nilmap", m |-> EmptyMap]
\* The mark a run-time panic leaves at the end of the heap.
PanicCell == [kind |-> "panic"]
\* A panic has ended the call that worked on heap h.
Panicked(h) == h # <<>> /\ h[Len(h)].kind = "panic"

\* Store with a slip: the assignment drops the other entries of the map.
Store_DropsOthers(h, p, name, v) == [h EXCEPT ![p] = MapCell(Put(EmptyMap, name, v))]
\* The heap after targetObj[name] = v on the map at address p: an
\* assignment to an entry of a nil map panics, and nothing runs after a panic.
Store(h, p, name, v) ==
  IF Panicked(h) THEN h
  ELSE IF h[p].kind = "nilmap" THEN Append(h, PanicCell)
  ELSE [h EXCEPT ![p] = MapCell(Put(h[p].m, name, v))]
\* Delete with a slip: the entry is set to null instead of removed.
Delete_StoresNull(h, p, name) == Store(h, p, name, NullV)
\* Delete with a slip: the entry is kept.
Delete_Keeps(h, p, name) == h
\* The heap after delete(targetObj, name) on the map at address p; a delete
\* on a nil map does nothing.
Delete(h, p, name) ==
  IF Panicked(h) \/ h[p].kind = "nilmap" THEN h
  ELSE [h EXCEPT ![p] = MapCell(Del(h[p].m, name))]

\* The names of the members of the struct documents.
FieldKeys == {"name", "desc", "port", "count"}
\* Every key of a document, in a fixed order.
AllKeys == <<"a", "b", "count", "desc", "name", "port">>

\* The orders in which the keys of a map may be enumerated (Go leaves the
\* order of a range over a map, and of a marshalled map, unspecified).
Orders(S) == {s \in [1..Cardinality(S) -> S] : \A i, j \in 1..Cardinality(S) : i # j => s[i] # s[j]}
KeyOrders == Orders(Keys)
\* The keys of S in the order ord enumerates them.
InOrder(S, ord) == SelectSeq(ord, LAMBDA k : k \in S)

(***************************************************************************)
(* Building a document on the heap and reading it back.                    *)
(***************************************************************************)
RECURSIVE Alloc(_, _), AllocMembers(_, _, _), AllocElems(_, _, _)
\* The heap and the value after building tree t from fresh cells.
Alloc(h, t) ==
  CASE t.tag = "obj" ->
         LET r == AllocMembers(h, t.mem, InOrder(DOMAIN t.mem, AllKeys))
         IN  [h |-> Append(r.h, MapCell(r.c)), v |-> ObjRef(Len(r.h) + 1)]
    [] t.tag = "arr" ->
         LET r == AllocElems(h, t.els, 1)
         IN  [h |-> Append(r.h, SliceCell(r.c)), v |-> ArrRef(Len(r.h) + 1)]
    [] t.tag = "nilmap" -> [h |-> Append(h, NilCell), v |-> ObjRef(Len(h) + 1)]
    [] OTHER -> [h |-> h, v |-> t]

AllocMembers(h, mem, ks) ==
  IF ks = <<>> THEN [h |-> h, c |-> EmptyMap]
  ELSE LET r1 == Alloc(h, mem[Head(ks)])
           r2 == AllocMembers(r1.h, mem, Tail(ks))
       IN  [h |-> r2.h, c |-> Put(r2.c, Head(ks), r1.v)]

AllocElems(h, els, i) ==
  IF i > Len(els) THEN [h |-> h, c |-> <<>>]
  ELSE LET r1 == Alloc(h, els[i])
           r2 == AllocElems(r1.h, els, i + 1)
       IN  [h |-> r2.h, c |-> <<r1.v>> \o r2.c]

RECURSIVE Read(_, _)
\* The document that value v denotes in heap h, as a tree.
Read(h, v) ==
  CASE v.tag = "obj" ->
         IF h[v.ptr].kind = "nilmap" THEN NilMap
         ELSE TObj([k \in DOMAIN h[v.ptr].m |-> Read(h, h[v.ptr].m[k])])
    [] v.tag = "arr" -> TArr([i \in DOMAIN h[v.ptr].s |-> Read(h, h[v.ptr].s[i])])
    [] OTHER -> v

(***************************************************************************)
(* The input documents.                                                    *)
(***************************************************************************)
Scalars == {NullV, NumV("1"), StrV("x")}
PartialMaps(K, V) == UNION {[S -> V] : S \in SUBSET K}
FlatObjs == {TObj(f) : f \in PartialMaps(Keys, Scalars)}
ArrElems == {NullV, NumV("1"), TObj([k \in Keys |-> NumV("1")])}
Arrays == {TArr(s) : s \in UNION {[1..n -> ArrElems] : n \in 0..MaxArrLen}}
Members == Scalars \cup FlatObjs \cup Arrays
TopObjs ==
  {TObj(f) : f \in {g \in PartialMaps(Keys, Members) :
                      \A k \in DOMAIN g : k # SpineKey => g[k] \in Scalars}}
Docs == TopObjs \cup Scalars \cup Arrays

(***************************************************************************)
(* jsonmerge.go                                                            *)
(***************************************************************************)
\* isObject: v is a map[string]interface{}.
isObject(v) == v.tag = "obj"

RECURSIVE mergePatch(_, _, _, _), mergeRange(_, _, _, _, _)
\* mergePatch with a slip: an array patch is appended to an array target
\* instead of replacing it.
mergePatch_AppendsArrays(h, target, patch, ord) ==
  IF ~isObject(patch)
  THEN IF patch.tag = "arr" /\ target.tag = "arr"
       THEN [h |-> Append(h, SliceCell(h[target.ptr].s \o h[patch.ptr].s)),
             v |-> ArrRef(Len(h) + 1)]
       ELSE [h |-> h, v |-> patch]
  ELSE LET t == IF ~isObject(target)
                THEN [h |-> Append(h, MapCell(EmptyMap)), v |-> ObjRef(Len(h) + 1)]
                ELSE [h |-> h, v |-> target]
           names == InOrder(DOMAIN t.h[patch.ptr].m, ord)
       IN  [h |-> mergeRange(t.h, t.v.ptr, patch.ptr, names, ord), v |-> t.v]

\* mergePatch(target, patch): the heap after the call and the value returned.
\* ord is the order in which the ranges over maps enumerate keys.
mergePatch(h, target, patch, ord) ==
  IF ~isObject(patch) THEN [h |-> h, v |-> patch]
  ELSE LET t == IF ~isObject(target)
                THEN [h |-> Append(h, MapCell(EmptyMap)), v |-> ObjRef(Len(h) + 1)]
                ELSE [h |-> h, v |-> target]
           names == InOrder(DOMAIN t.h[patch.ptr].m, ord)
       IN  [h |-> mergeRange(t.h, t.v.ptr, patch.ptr, names, ord), v |-> t.v]

\* mergeRange with a slip: the loop ends after the first deletion.
mergeRange_StopsAfterDelete(h, targetObj, patchObj, names, ord) ==
  IF names = <<>> THEN h
  ELSE LET name == Head(names) IN
       IF name \notin DOMAIN h[patchObj].m
       THEN mergeRange(h, targetObj, patchObj, Tail(names), ord)
       ELSE LET value == h[patchObj].m[name] IN
            IF value.tag = "null"
            THEN Delete(h, targetObj, name)
            ELSE LET cur == IF name \in DOMAIN h[targetObj].m
                            THEN h[targetObj].m[name] ELSE NullV
                     r == mergePatch(h, cur, value, ord)
                 IN  mergeRange(Store(r.h, targetObj, name, r.v),
                                targetObj, patchObj, Tail(names), ord)

\* mergeRange with a slip: the recursive call is given nil instead of
\* targetObj[name].
mergeRange_ForgetsTarget(h, targetObj, patchObj, names, ord) ==
  IF names = <<>> THEN h
  ELSE LET name == Head(names) IN
       IF name \notin DOMAIN h[patchObj].m
       THEN mergeRange(h, targetObj, patchObj, Tail(names), ord)
       ELSE LET value == h[patchObj].m[name] IN
            IF value.tag = "null"
            THEN mergeRange(Delete(h, targetObj, name), targetObj, patchObj, Tail(names), ord)
            ELSE LET r == mergePatch(h, NullV, value, ord)
                 IN  mergeRange(Store(r.h, targetObj, name, r.v),
                                targetObj, patchObj, Tail(names), ord)

\* The body of "for name, value := range patchObj" for the names left; a
\* panic ends the loop.
mergeRange(h, targetObj, patchObj, names, ord) ==
  IF names = <<>> \/ Panicked(h) THEN h
  ELSE LET name == Head(names) IN
       IF name \notin DOMAIN h[patchObj].m
       THEN mergeRange(h, targetObj, patchObj, Tail(names), ord)
       ELSE LET value == h[patchObj].m[name] IN
            IF value.tag = "null"
            THEN mergeRange(Delete(h, targetObj, name), targetObj, patchObj, Tail(names), ord)
            ELSE LET cur == IF name \in DOMAIN h[targetObj].m
                            THEN h[targetObj].m[name] ELSE NullV
                     r == mergePatch(h, cur, value, ord)
                 IN  mergeRange(Store(r.h, targetObj, name, r.v),
                                targetObj, patchObj, Tail(names), ord)

\* The token of an escaped quote inside a JSON string.
EscQuote == "\\\""

\* Escape with a slip: the text is written as it is.
Escape_Verbatim(toks) == toks
RECURSIVE Escape(_)
\* The text of a string as json.Marshal writes it between the quotes.
Escape(toks) ==
  IF toks = <<>> THEN <<>>
  ELSE <<IF Head(toks) = "\"" THEN EscQuote ELSE Head(toks)>> \o Escape(Tail(toks))

RECURSIVE Marshal(_, _), MarshalElems(_, _, _), MarshalMembers(_, _, _)
\* json.Marshal(v): the texts it may produce, each a sequence of tokens.  A
\* map with more than one key is written in the order its range enumerates
\* the keys, which is unspecified; Marshal does not sort them.  The empty
\* set stands for an error: v holds a value that has no JSON text.
Marshal(h, v) ==
  CASE v.tag = "null" -> {<<"null">>}
    [] v.tag = "num" -> {<<v.lit>>}
    [] v.tag = "bool" -> {<<v.val>>}
    [] v.tag = "nan" -> {}
    [] v.tag = "str" -> {<<"\"">> \o Escape(v.lit) \o <<"\"">>}
    [] v.tag = "arr" ->
         {<<"[">> \o body \o <<"]">> : body \in MarshalElems(h, h[v.ptr].s, 1)}
    [] v.tag = "obj" ->
         {<<"{">> \o body \o <<"}">> :
            body \in UNION {MarshalMembers(h, h[v.ptr].m, names) :
                              names \in Orders(DOMAIN h[v.ptr].m)}}

MarshalElems(h, s, i) ==
  IF i > Len(s) THEN {<<>>}
  ELSE {e \o (IF i < Len(s) THEN <<",">> ELSE <<>>) \o rest :
          e \in Marshal(h, s[i]), rest \in MarshalElems(h, s, i + 1)}

MarshalMembers(h, m, names) ==
  IF names = <<>> THEN {<<>>}
  ELSE {<<"\"", Head(names), "\"", ":">> \o e
          \o (IF Len(names) > 1 THEN <<",">> ELSE <<>>) \o rest :
          e \in Marshal(h, m[Head(names)]),
          rest \in MarshalMembers(h, m, Tail(names))}

\* deepEqual with a slip: only the kinds of the two values are compared.
deepEqual_KindOnly(h, a, b) == {a.tag = b.tag}
\* deepEqual(a, b): the answers it may give (one for each pair of texts the
\* two calls of json.Marshal may produce).
deepEqual(h, a, b) ==
  IF Marshal(h, a) = {} \/ Marshal(h, b) = {} THEN {FALSE}
  ELSE {x = y : x \in Marshal(h, a), y \in Marshal(h, b)}

RECURSIVE generatePatch(_, _, _), genTargetRange(_, _, _, _, _), genSourceRange(_, _, _, _, _)
\* generatePatch(source, target): the outcomes it may have, each the heap
\* after the call and the value returned.
generatePatch(h, source, target) ==
  IF ~isObject(target) THEN {[h |-> h, v |-> target]}
  ELSE IF ~isObject(source) THEN {[h |-> h, v |-> target]}
  ELSE LET patch == Len(h) + 1
           h0 == Append(h, MapCell(EmptyMap))
           tkeys == InOrder(DOMAIN h[target.ptr].m, AllKeys)
           skeys == InOrder(DOMAIN h[source.ptr].m, AllKeys)
       IN  {[h |-> genSourceRange(h1, source.ptr, target.ptr, patch, skeys),
             v |-> ObjRef(patch)] :
              h1 \in genTargetRange(h0, source.ptr, target.ptr, patch, tkeys)}

\* The body of "for key, targetValue := range targetObj" for the keys left:
\* the heaps it may end with.
genTargetRange(h, sourceObj, targetObj, patch, keys) ==
  IF keys = <<>> THEN {h}
  ELSE LET key == Head(keys)
           targetValue == h[targetObj].m[key]
       IN  IF key \in DOMAIN h[sourceObj].m
           THEN LET sourceValue == h[sourceObj].m[key] IN
                IF isObject(sourceValue) /\ isObject(targetValue)
                THEN UNION {IF Cardinality(DOMAIN nested.h[nested.v.ptr].m) > 0
                            THEN genTargetRange(Store(nested.h, patch, key, nested.v),
                                                sourceObj, targetObj, patch, Tail(keys))
                            ELSE genTargetRange(nested.h, sourceObj, targetObj, patch, Tail(keys)) :
                              nested \in generatePatch(h, sourceValue, targetValue)}
                ELSE UNION {IF ~eq
                            THEN genTargetRange(Store(h, patch, key, targetValue),
                                                sourceObj, targetObj, patch, Tail(keys))
                            ELSE genTargetRange(h, sourceObj, targetObj, patch, Tail(keys)) :
                              eq \in deepEqual(h, sourceValue, targetValue)}
           ELSE genTargetRange(Store(h, patch, key, targetValue),
                               sourceObj, targetObj, patch, Tail(keys))

\* genSourceRange with a slip: no deletion marker is written.
genSourceRange_NoMarkers(h, sourceObj, targetObj, patch, keys) == h
\* The body of "for key := range sourceObj" for the keys left.
genSourceRange(h, sourceObj, targetObj, patch, keys) ==
  IF keys = <<>> THEN h
  ELSE IF Head(keys) \notin DOMAIN h[targetObj].m
       THEN genSourceRange(Store(h, patch, Head(keys), NullV),
                           sourceObj, targetObj, patch, Tail(keys))
       ELSE genSourceRange(h, sourceObj, targetObj, patch, Tail(keys))

\* Clone with a slip: the value itself is returned, not a copy.
Clone_Aliases(h, v) == [h |-> h, v |-> v]
\* deepclone.Clone(v): a copy of v that shares no cell with v.
Clone(h, v) == Alloc(h, Read(h, v))

\* An option list: WithMutate(b) for each b of opts, in order.
OptLists == UNION {[1..n -> BOOLEAN] : n \in 0..MaxOpts}

\* applyOptions with a slip: one WithMutate(true) anywhere switches the
\* mode on.
applyOptions_AnyTrue(options, opts) ==
  [options EXCEPT !.Mutate = \E i \in DOMAIN opts : opts[i]]
RECURSIVE applyOptions(_, _)
\* options := &Options{}; for _, opt := range opts { opt(options) }
applyOptions(options, opts) ==
  IF opts = <<>> THEN options
  ELSE applyOptions([options EXCEPT !.Mutate = Head(opts)], Tail(opts))

\* convertToInterface for a map[string]any document: the map itself.
convertToInterface(h, doc) == [h |-> h, v |-> doc, err |-> "nil"]

\* convertFromInterface[map[string]any](val).
convertFromInterface(h, val) ==
  IF isObject(val) THEN [h |-> h, doc |-> val, err |-> "nil"]
  ELSE [h |-> h, doc |-> NoVal, err |-> "ErrConversionFailed"]

\* Merge(target, patch, opts...) on map[string]any documents: the heap after
\* the call, Result.Doc and the error, or "panic" when the call did not
\* return.
Merge(h, target, patch, opts, ord) ==
  LET options == applyOptions([Mutate |-> FALSE], opts)
      t == convertToInterface(h, target)
      p == convertToInterface(t.h, patch)
      c == IF ~options.Mutate THEN Clone(p.h, t.v) ELSE [h |-> p.h, v |-> t.v]
      merged == mergePatch(c.h, c.v, p.v, ord)
  IN  IF Panicked(merged.h) THEN [h |-> merged.h, doc |-> NoVal, err |-> "panic"]
      ELSE convertFromInterface(merged.h, merged.v)

(***************************************************************************)
(* json.Unmarshal into an any: a parser of token sequences.  A parse       *)
(* result is [ok, v, next]: whether a value was read, the value as a tree, *)
(* and the position after it.                                              *)
(***************************************************************************)
NumLits == {"0", "1"}
ParseFail == [ok |-> FALSE, v |-> NoVal, next |-> 0]
ParseOk(v, next) == [ok |-> TRUE, v |-> v, next |-> next]

RECURSIVE ParseValue(_, _), ParseString(_, _, _), ParseElems(_, _, _), ParseMembers(_, _, _)
RECURSIVE AfterElem(_, _, _), AfterName(_, _, _), AfterMember(_, _, _, _)
ParseValue(toks, i) ==
  IF i > Len(toks) THEN ParseFail
  ELSE LET tok == toks[i] IN
       CASE tok = "null" -> ParseOk(NullV, i + 1)
         [] tok \in {"true", "false"} -> ParseOk(BoolV(tok), i + 1)
         [] tok \in NumLits -> ParseOk(NumV(tok), i + 1)
         [] tok = "\"" -> ParseString(toks, i + 1, <<>>)
         [] tok = "[" -> IF i < Len(toks) /\ toks[i + 1] = "]"
                         THEN ParseOk(TArr(<<>>), i + 2)
                         ELSE ParseElems(toks, i + 1, <<>>)
         [] tok = "{" -> IF i < Len(toks) /\ toks[i + 1] = "}"
                         THEN ParseOk(TObj(EmptyMap), i + 2)
                         ELSE ParseMembers(toks, i + 1, EmptyMap)
         [] OTHER -> ParseFail

\* ParseString with a slip: an escaped quote is kept as it is written.
ParseString_KeepsEscapes(toks, i, acc) ==
  IF i > Len(toks) THEN ParseFail
  ELSE IF toks[i] = "\"" THEN ParseOk(RawStr(acc), i + 1)
  ELSE ParseString(toks, i + 1, Append(acc, toks[i]))
\* The rest of a string after its opening quote: acc is the text read so far.
ParseString(toks, i, acc) ==
  IF i > Len(toks) THEN ParseFail
  ELSE IF toks[i] = "\"" THEN ParseOk(RawStr(acc), i + 1)
  ELSE IF toks[i] = EscQuote THEN ParseString(toks, i + 1, Append(acc, "\""))
  ELSE ParseString(toks, i + 1, Append(acc, toks[i]))

\* The elements of a non-empty array from position i on.
ParseElems(toks, i, acc) == AfterElem(toks, ParseValue(toks, i), acc)

\* The array after r, the outcome of reading an element: a comma and the
\* elements left, or the closing bracket.
AfterElem(toks, r, acc) ==
  IF ~r.ok \/ r.next > Len(toks) THEN ParseFail
  ELSE IF toks[r.next] = "," THEN ParseElems(toks, r.next + 1, Append(acc, r.v))
  ELSE IF toks[r.next] = "]" THEN ParseOk(TArr(Append(acc, r.v)), r.next + 1)
  ELSE ParseFail

\* The members of a non-empty object from position i on.  A name is a string
\* of one word; a name read twice is an error (duplicate names are rejected).
ParseMembers(toks, i, acc) ==
  IF i > Len(toks) \/ toks[i] # "\"" THEN ParseFail
  ELSE AfterName(toks, ParseString(toks, i + 1, <<>>), acc)

\* The object after k, the outcome of reading a name: a colon and a value.
AfterName(toks, k, acc) ==
  IF ~k.ok \/ k.next > Len(toks) THEN ParseFail
  ELSE IF Len(k.v.lit) # 1 \/ toks[k.next] # ":" THEN ParseFail
  ELSE IF k.v.lit[1] \in DOMAIN acc THEN ParseFail
  ELSE AfterMember(toks, k.v.lit[1], ParseValue(toks, k.next + 1), acc)

\* The object after r, the outcome of reading the value of member name: a
\* comma and the members left, or the closing brace.
AfterMember(toks, name, r, acc) ==
  IF ~r.ok \/ r.next > Len(toks) THEN ParseFail
  ELSE IF toks[r.next] = "," THEN ParseMembers(toks, r.next + 1, Put(acc, name, r.v))
  ELSE IF toks[r.next] = "}" THEN ParseOk(TObj(Put(acc, name, r.v)), r.next + 1)
  ELSE ParseFail

\* The outcome of reading a text, given r, the outcome of reading a value at
\* its start: an error unless the value is the whole text.
WholeText(toks, r) ==
  IF r.ok /\ r.next = Len(toks) + 1 THEN [ok |-> TRUE, v |-> r.v]
  ELSE [ok |-> FALSE, v |-> NoVal]

\* json.Unmarshal(data, &v) for v an any: [ok, v].
Unmarshal(toks) == WholeText(toks, ParseValue(toks, 1))

(***************************************************************************)
(* Struct documents.  The struct has a plain string field, a string field, *)
(* a pointer field and an int field tagged omitempty, and a field tagged   *)
(* "-":                                                                    *)
(*   Name string `json:"name"`; Desc string `json:"desc,omitempty"`;       *)
(*   Port *int `json:"port,omitempty"`; Count int `json:"count,omitempty"`;*)
(*   Internal string `json:"-"`.                                           *)
(* A struct value is a function from the fields to their values; a nil     *)
(* pointer is NullV and the zero string is the string of no text.          *)
(***************************************************************************)
Fields == <<"Name", "Desc", "Port", "Count", "Internal">>
JsonName == [Name |-> "name", Desc |-> "desc", Port |-> "port", Count |-> "count"]
OmitEmpty == {"Desc", "Port", "Count"}
Excluded == {"Internal"}
Zero(f) ==
  CASE f = "Port" -> NullV
    [] f = "Count" -> NumV("0")
    [] OTHER -> RawStr(<<>>)
ZeroStruct == [f \in {Fields[i] : i \in DOMAIN Fields} |-> Zero(f)]
\* The kinds of JSON value a field can be read from.
Fits(f, v) ==
  CASE f = "Port" -> v.tag \in {"null", "num"}
    [] f = "Count" -> v.tag \in {"null", "num"}
    [] OTHER -> v.tag \in {"null", "str"}
\* Value v is written as an empty JSON value: null or the empty string (a
\* struct field holds no object and no array here).
IsEmpty(v) == v \in {NullV, RawStr(<<>>)}

RECURSIVE MarshalFields(_, _, _)
\* MarshalFields with a slip: omitempty is not looked at.
MarshalFields_WritesAll(rec, i, started) ==
  IF i > Len(Fields) THEN <<>>
  ELSE IF Fields[i] \in Excluded THEN MarshalFields(rec, i + 1, started)
  ELSE (IF started THEN <<",">> ELSE <<>>)
       \o <<"\"", JsonName[Fields[i]], "\"", ":">>
       \o (CHOOSE x \in Marshal(<<>>, rec[Fields[i]]) : TRUE)
       \o MarshalFields(rec, i + 1, TRUE)
\* The members json.Marshal writes for the fields from position i on, in
\* the order of declaration: none for a field tagged "-", and none for a
\* field tagged omitempty whose value would be written as an empty JSON
\* value (the json package at hand omits null, "", {} and [], not a zero
\* number).
MarshalFields(rec, i, started) ==
  IF i > Len(Fields) THEN <<>>
  ELSE LET f == Fields[i] IN
       IF f \in Excluded \/ (f \in OmitEmpty /\ IsEmpty(rec[f]))
       THEN MarshalFields(rec, i + 1, started)
       ELSE (IF started THEN <<",">> ELSE <<>>)
            \o <<"\"", JsonName[f], "\"", ":">>
            \o (CHOOSE x \in Marshal(<<>>, rec[f]) : TRUE)
            \o MarshalFields(rec, i + 1, TRUE)

\* json.Marshal(doc) for doc a struct.
MarshalStruct(rec) == <<"{">> \o MarshalFields(rec, 1, FALSE) \o <<"}">>

\* The struct read from r, the outcome of parsing a text: [ok, rec].
\* Members the struct has no field for are skipped; a member of a kind its
\* field cannot hold, and a text that is no object, is an error.
FillStruct(r) ==
  IF ~r.ok THEN [ok |-> FALSE, rec |-> ZeroStruct]
  ELSE IF r.v.tag # "obj" THEN [ok |-> FALSE, rec |-> ZeroStruct]
  ELSE IF \E f \in DOMAIN JsonName :
            JsonName[f] \in DOMAIN r.v.mem /\ ~Fits(f, r.v.mem[JsonName[f]])
       THEN [ok |-> FALSE, rec |-> ZeroStruct]
  ELSE [ok |-> TRUE,
        rec |-> [f \in DOMAIN ZeroStruct |->
                   IF f \notin DOMAIN JsonName THEN Zero(f)
                   ELSE IF JsonName[f] \notin DOMAIN r.v.mem THEN Zero(f)
                   ELSE IF r.v.mem[JsonName[f]].tag = "null" THEN Zero(f)
                   ELSE r.v.mem[JsonName[f]]]]

\* json.Unmarshal(data, &target) for target a struct at its zero value.
UnmarshalStruct(toks) == FillStruct(Unmarshal(toks))

(***************************************************************************)
(* Documents of a representation rp: "bytes" and "text" documents are      *)
(* texts, "map" documents are maps on the heap, "struct" documents are     *)
(* struct values, and "any" documents are maps on the heap or nil, a bool  *)
(* or a number held in an any.  A conversion to the internal form gives    *)
(* [h, v, is]: the heap, the value and the errors the returned error       *)
(* matches (none when it is nil).                                          *)
(***************************************************************************)
TextDoc(toks) == [tag |-> "text", toks |-> toks]
StructDoc(rec) == [tag |-> "rec", f |-> rec]
\* The nil error.
NoErr == [is |-> {}, what |-> ""]

\* The value json.Unmarshal has stored in result, built on heap h, when
\* its outcome r is a value, and otherwise the outcome failed.
Built(h, b) == [h |-> b.h, v |-> b.v, is |-> {}]
Parsed(h, r, failed) == IF r.ok THEN Built(h, Alloc(h, r.v)) ELSE failed

\* case []byte with a slip: a text that does not parse is the string of
\* that text.
bytesToInterface_Lenient(h, doc) ==
  Parsed(h, Unmarshal(doc.toks), [h |-> h, v |-> RawStr(doc.toks), is |-> {}])
\* case []byte: the text is parsed, and a text that does not parse is an error.
bytesToInterface(h, doc) ==
  Parsed(h, Unmarshal(doc.toks), [h |-> h, v |-> NoVal, is |-> {"ErrInvalidJSON"}])

\* case string with a slip: a text that does not parse is an error.
stringToInterface_Strict(h, doc) == bytesToInterface(h, doc)
\* case string: the text is parsed, and a text that does not parse is the
\* string of that text.
stringToInterface(h, doc) ==
  Parsed(h, Unmarshal(doc.toks), [h |-> h, v |-> RawStr(doc.toks), is |-> {}])

\* default: the struct is marshalled and the text parsed.
structToInterface(h, doc) ==
  Parsed(h, Unmarshal(MarshalStruct(doc.f)),
         [h |-> h, v |-> NoVal, is |-> {"ErrUnmarshalFailed"}])

\* convertToInterface(doc) for a document of representation rp.
convertDocToInterface(h, rp, doc) ==
  CASE rp = "bytes" -> bytesToInterface(h, doc)
    [] rp = "text" -> stringToInterface(h, doc)
    [] rp = "struct" -> structToInterface(h, doc)
    [] OTHER -> [h |-> h, v |-> convertToInterface(h, doc).v, is |-> {}]

\* The zero value of a document type.
ZeroDoc(rp) ==
  CASE rp \in {"bytes", "text"} -> TextDoc(<<>>)
    [] rp = "struct" -> StructDoc(ZeroStruct)
    [] rp = "map" -> NilMap
    [] OTHER -> NullV

\* convertFromInterface[T](val) for T of representation rp: the outcomes
\* [h, doc, is] it may have, one for each text json.Marshal may write.
convertDocFromInterface(h, rp, val) ==
  CASE rp = "map" ->
         {[h |-> h, doc |-> IF isObject(val) THEN val ELSE NilMap,
           is |-> IF isObject(val) THEN {} ELSE {"ErrConversionFailed"}]}
    [] Marshal(h, val) = {} ->
         {[h |-> h, doc |-> ZeroDoc(rp), is |-> {"ErrMarshalFailed"}]}
    [] rp \in {"bytes", "text"} ->
         {[h |-> h, doc |-> TextDoc(data), is |-> {}] : data \in Marshal(h, val)}
    [] rp = "struct" ->
         {[h |-> h, doc |-> StructDoc(u.rec),
           is |-> IF u.ok THEN {} ELSE {"ErrUnmarshalFailed"}] :
            u \in {UnmarshalStruct(data) : data \in Marshal(h, val)}}
    [] OTHER ->
         {[h |-> b.h, doc |-> b.v, is |-> {}] :
            b \in {Alloc(h, Unmarshal(data).v) : data \in Marshal(h, val)}}

\* Merge(target, patch, opts...) on documents of representation rp: the
\* outcomes [h, doc, is, what] it may have.  doc is Result.Doc, or NoVal when
\* the result is nil; what names the conversion that failed.
MergeDoc(h, rp, target, patch, opts, ord) ==
  LET options == applyOptions([Mutate |-> FALSE], opts)
      t == convertDocToInterface(h, rp, target)
      p == convertDocToInterface(t.h, rp, patch)
      c == IF ~options.Mutate THEN Clone(p.h, t.v) ELSE [h |-> p.h, v |-> t.v]
      merged == mergePatch(c.h, c.v, p.v, ord)
  IN  IF t.is # {}
      THEN {[h |-> h, doc |-> NoVal, is |-> {"ErrUnsupportedType"} \cup t.is, what |-> "target"]}
      ELSE IF p.is # {}
      THEN {[h |-> h, doc |-> NoVal, is |-> {"ErrUnsupportedType"} \cup p.is, what |-> "patch"]}
      ELSE {IF o.is # {}
            THEN [h |-> o.h, doc |-> NoVal, is |-> {"ErrConversionFailed"} \cup o.is,
                  what |-> "result"]
            ELSE [h |-> o.h, doc |-> o.doc, is |-> {}, what |-> ""] :
              o \in convertDocFromInterface(merged.h, rp, merged.v)}

\* Generate(source, target) on documents of representation rp: the outcomes
\* [h, doc, is, what] it may have.
GenerateDoc(h, rp, source, target) ==
  LET s == convertDocToInterface(h, rp, source)
      t == convertDocToInterface(s.h, rp, target)
  IN  IF s.is # {}
      THEN {[h |-> h, doc |-> ZeroDoc(rp), is |-> {"ErrUnsupportedType"} \cup s.is,
             what |-> "source"]}
      ELSE IF t.is # {}
      THEN {[h |-> h, doc |-> ZeroDoc(rp), is |-> {"ErrUnsupportedType"} \cup t.is,
             what |-> "target"]}
      ELSE UNION {{IF o.is # {}
                   THEN [h |-> o.h, doc |-> ZeroDoc(rp),
                         is |-> {"ErrPatchGenerationFailed"} \cup o.is, what |-> "patch"]
                   ELSE [h |-> o.h, doc |-> o.doc, is |-> {}, what |-> ""] :
                     o \in convertDocFromInterface(g.h, rp, g.v)} :
                    g \in generatePatch(t.h, s.v, t.v)}

\* Valid(doc) on a document of representation rp.
Valid(h, rp, doc) == convertDocToInterface(h, rp, doc).is = {}

(***************************************************************************)
(* The caller.                                                             *)
(***************************************************************************)
Init ==
  \E a \in Docs, b \in Docs :
    LET ra == Alloc(<<>>, a)
        rb == Alloc(ra.h, b)
    IN  /\ heap = rb.h
        /\ docA = ra.v
        /\ docB = rb.v
        /\ preA = a
        /\ preB = b
        /\ res = NoVal
        /\ first = NoVal
        /\ phase = "init"
        /\ opt = <<>>
        /\ rep = "engine"
        /\ err = NoErr
        /\ calls = <<>>

\* A call mergePatch(docA, docB) of the merge engine.
ApplyPatch ==
  /\ phase = "init"
  /\ \E ord \in KeyOrders :
       LET r == mergePatch(heap, docA, docB, ord)
       IN  /\ heap' = r.h
           /\ res' = r.v
  /\ phase' = "applied"
  /\ UNCHANGED <<docA, docB, preA, preB, first, opt>>
  /\ UNCHANGED docVars

\* The patch applied once more, to the result of the first application.
ApplyAgain ==
  /\ phase = "applied"
  /\ \E ord \in KeyOrders :
       LET r == mergePatch(heap, res, docB, ord)
       IN  /\ heap' = r.h
           /\ res' = r.v
  /\ first' = Read(heap, res)
  /\ phase' = "reapplied"
  /\ UNCHANGED <<docA, docB, preA, preB, opt>>
  /\ UNCHANGED docVars

\* A call Merge(docA, docB, opts...) with map[string]any documents.
MergeCall ==
  /\ phase = "init"
  /\ isObject(docA) /\ isObject(docB)
  /\ \E opts \in OptLists, ord \in KeyOrders :
       LET r == Merge(heap, docA, docB, opts, ord)
       IN  /\ heap' = r.h
           /\ res' = r.doc
           /\ opt' = opts
  /\ phase' = "merged"
  /\ UNCHANGED <<docA, docB, preA, preB, first>>
  /\ UNCHANGED docVars

\* A call generatePatch(docA, docB) of the diff engine.
GeneratePatch ==
  /\ phase = "init"
  /\ \E r \in generatePatch(heap, docA, docB) :
       /\ heap' = r.h
       /\ res' = r.v
  /\ phase' = "generated"
  /\ UNCHANGED <<docA, docB, preA, preB, first, opt>>
  /\ UNCHANGED docVars

\* The generated patch applied to the source: mergePatch(docA, patch).
ApplyGenerated ==
  /\ phase = "generated"
  /\ \E ord \in KeyOrders :
       LET r == mergePatch(heap, docA, res, ord)
       IN  /\ heap' = r.h
           /\ res' = r.v
  /\ first' = Read(heap, res)
  /\ phase' = "roundtrip"
  /\ UNCHANGED <<docA, docB, preA, preB, opt>>
  /\ UNCHANGED docVars

\* A call deepEqual(docA, docB) of the equality oracle.
CompareCall ==
  /\ phase = "init"
  /\ \E x \in deepEqual(heap, docA, docB) :
       res' = [tag |-> "answer", eq |-> x]
  /\ phase' = "compared"
  /\ UNCHANGED <<heap, docA, docB, preA, preB, first, opt>>
  /\ UNCHANGED docVars

Next ==
  \/ ApplyPatch \/ ApplyAgain \/ MergeCall
  \/ GeneratePatch \/ ApplyGenerated \/ CompareCall

Spec == Init /\ [][Next]_vars

(***************************************************************************)
(* The documents a state shows, as trees.                                  *)
(***************************************************************************)
\* The value the last call returned.
Result == Read(heap, res)
\* The empty object.
EmptyObj == TObj(EmptyMap)
\* The member of object tree t at key k, or null when t has no such member
\* or is no object.
MemberOrNull(t, k) ==
  IF t.tag = "obj" /\ k \in DOMAIN t.mem THEN t.mem[k] ELSE NullV
\* The states right after a call of the merge engine on (preA, preB).
Applied == phase = "applied"

RECURSIVE RfcMergePatch(_, _)
\* The function MergePatch(Target, Patch) of RFC 7386, section 2, on trees.
RfcMergePatch(t, p) ==
  IF p.tag # "obj" THEN p
  ELSE LET base == IF t.tag = "obj" THEN t.mem ELSE EmptyMap
           gone == {k \in DOMAIN p.mem : p.mem[k].tag = "null"}
           set == (DOMAIN p.mem) \ gone
       IN  TObj([k \in ((DOMAIN base) \cup set) \ gone |->
                   IF k \in set
                   THEN RfcMergePatch(IF k \in DOMAIN base THEN base[k] ELSE NullV, p.mem[k])
                   ELSE base[k]])

RECURSIVE StripNulls(_)
\* Tree p with the null members of its objects removed, at every level
\* reached through objects (arrays are left as they are).
StripNulls(p) ==
  IF p.tag # "obj" THEN p
  ELSE TObj([k \in {x \in DOMAIN p.mem : p.mem[x].tag # "null"} |-> StripNulls(p.mem[k])])

\* mergePatch run on fresh copies of trees t and p: the tree it returns.
MergeTrees(t, p) ==
  LET a == Alloc(<<>>, t)
      b == Alloc(a.h, p)
      r == mergePatch(b.h, a.v, b.v, AllKeys)
  IN  Read(r.h, r.v)

(***************************************************************************)
(* C1                                                                      *)
(***************************************************************************)
RECURSIVE Replaced(_, _)
\* Every non-object, non-null member of patch tree p, at every level reached
\* through objects, is the member of result tree r at the same place.
Replaced(p, r) ==
  \A k \in DOMAIN p.mem :
    /\ p.mem[k].tag \notin {"obj", "null"} =>
         r.tag = "obj" /\ k \in DOMAIN r.mem /\ r.mem[k] = p.mem[k]
    /\ p.mem[k].tag = "obj" =>
         r.tag = "obj" /\ k \in DOMAIN r.mem /\ Replaced(p.mem[k], r.mem[k])

\* C1: whole-value replacement.  A patch that is not an object is returned
\* itself, whatever the target; at every key, at every level, a patch value
\* that is neither an object nor null is the result's value at that key,
\* whole: an array patch value is never merged with the target's array, and
\* its null elements stay.
C1_WholeValueReplacement ==
  Applied =>
    /\ preB.tag # "obj" => res = docB /\ Result = preB
    /\ preB.tag = "obj" => Replaced(preB, Result)

\* An array with a null element replaced a longer array at a key of the
\* target.
C1_Witness ==
  /\ Applied
  /\ preA.tag = "obj" /\ preB.tag = "obj"
  /\ "a" \in DOMAIN preA.mem /\ "a" \in DOMAIN preB.mem
  /\ preA.mem["a"].tag = "arr" /\ preB.mem["a"].tag = "arr"
  /\ Len(preA.mem["a"].els) = 2 /\ Len(preB.mem["a"].els) = 1
  /\ preB.mem["a"].els[1] = NullV
  /\ Result.mem["a"] = preB.mem["a"]

(***************************************************************************)
(* C2                                                                      *)
(***************************************************************************)
RECURSIVE Deleted(_, _, _)
\* For target tree t, object patch tree p and result tree r: every key that
\* p gives null is no key of r, every key of t that p does not name is kept
\* with its value, and the same holds below every key that p gives an object.
Deleted(t, p, r) ==
  /\ r.tag = "obj"
  /\ \A k \in DOMAIN p.mem :
       /\ p.mem[k].tag = "null" => k \notin DOMAIN r.mem
       /\ p.mem[k].tag = "obj" =>
            k \in DOMAIN r.mem /\ Deleted(MemberOrNull(t, k), p.mem[k], r.mem[k])
  /\ t.tag = "obj" =>
       \A j \in (DOMAIN t.mem) \ (DOMAIN p.mem) :
         j \in DOMAIN r.mem /\ r.mem[j] = t.mem[j]

\* C2: the deletion marker.  A key the object patch gives null is absent from
\* the result, whether the target had it or not, at every level the patch
\* reaches through objects, and its sibling keys in the target are kept.
C2_DeletionMarker ==
  Applied /\ preB.tag = "obj" => Deleted(preA, preB, Result)

\* A nested null removed a key the target had and kept its sibling, while a
\* top-level null named a key the target did not have.
C2_Witness ==
  /\ Applied
  /\ preA = TObj([a |-> TObj([a |-> NumV("1"), b |-> StrV("x")])])
  /\ preB = TObj([a |-> TObj([a |-> NullV]), b |-> NullV])
  /\ Result = TObj([a |-> TObj([b |-> StrV("x")])])

(***************************************************************************)
(* C3                                                                      *)
(***************************************************************************)
\* C3: recursive merge.  For an object patch, the result at each key k with
\* a non-null patch value v is mergePatch(t_k, v), t_k being the target's
\* value at k, or null; a target that is no object counts as the empty
\* object, so the result is then the patch with its null members removed;
\* and the result is the one the function of RFC 7386, section 2, gives.
C3_RecursiveMerge ==
  Applied =>
    /\ Result = RfcMergePatch(preA, preB)
    /\ preB.tag = "obj" =>
         /\ \A k \in DOMAIN preB.mem :
              preB.mem[k].tag # "null" =>
                /\ k \in DOMAIN Result.mem
                /\ Result.mem[k] = MergeTrees(MemberOrNull(preA, k), preB.mem[k])
         /\ preA.tag # "obj" => Result = StripNulls(preB)

\* A nested object patch was merged into the target's nested object, which
\* kept a member of its own.
C3_Witness ==
  /\ Applied
  /\ preA = TObj([a |-> TObj([a |-> NumV("1"), b |-> StrV("x")]), b |-> NumV("1")])
  /\ preB = TObj([a |-> TObj([a |-> StrV("x")])])
  /\ Result = TObj([a |-> TObj([a |-> StrV("x"), b |-> StrV("x")]), b |-> NumV("1")])

(***************************************************************************)
(* C4                                                                      *)
(***************************************************************************)
\* C4: the frame of a merge.  With an object target and an object patch,
\* every key of the target the patch does not name is in the result with the
\* value it had (a null value too), the result has no key that neither has,
\* and the empty patch gives a result equal to the target.
C4_Frame ==
  phase \in {"applied", "merged"} /\ preA.tag = "obj" /\ preB.tag = "obj" =>
    /\ Result.tag = "obj"
    /\ \A k \in (DOMAIN preA.mem) \ (DOMAIN preB.mem) :
         k \in DOMAIN Result.mem /\ Result.mem[k] = preA.mem[k]
    /\ DOMAIN Result.mem \subseteq (DOMAIN preA.mem) \cup (DOMAIN preB.mem)
    /\ preB = EmptyObj => Result = preA

\* The patch named one key and the target kept another, whose value is null.
C4_Witness ==
  /\ Applied
  /\ preA.tag = "obj" /\ preB.tag = "obj"
  /\ DOMAIN preA.mem = {"a", "b"} /\ DOMAIN preB.mem = {"a"}
  /\ preA.mem["b"] = NullV
  /\ preA.mem["a"].tag = "obj" /\ preB.mem["a"].tag = "arr"
  /\ Result.mem["b"] = NullV

(***************************************************************************)
(* C5                                                                      *)
(***************************************************************************)
\* The Mutate option a call of Merge with options opts runs under.
MutateOf(opts) == applyOptions([Mutate |-> FALSE], opts).Mutate

RoundTripped == phase = "roundtrip" /\ preA.tag = "obj" /\ preB.tag = "obj"

RECURSIVE NullsCovered(_, _)
\* Every null member of object tree t, at every level reached through
\* objects, is a null member of tree s at the same place.
NullsCovered(s, t) ==
  \A k \in DOMAIN t.mem :
    /\ t.mem[k].tag = "null" =>
         s.tag = "obj" /\ k \in DOMAIN s.mem /\ s.mem[k].tag = "null"
    /\ t.mem[k].tag = "obj" => NullsCovered(MemberOrNull(s, k), t.mem[k])

C7_RepeatedApplication ==
  phase = "reapplied" => Result = first

\* The patch was applied twice to a target that the first application
\* changed: a nested deletion, a nested addition and an array replaced.
C7_Witness ==
  /\ phase = "reapplied"
  /\ preA = TObj([a |-> TObj([a |-> NumV("1")]), b |-> NumV("1")])
  /\ preB = TObj([a |-> TObj([a |-> NullV, b |-> StrV("x")]), b |-> NullV])
  /\ first = TObj([a |-> TObj([b |-> StrV("x")])])
  /\ Result = first

(***************************************************************************)
(* C8                                                                      *)
(***************************************************************************)
\* The states right after generatePatch(preA, preB) on two objects.
Generated == phase = "generated" /\ preA.tag = "obj" /\ preB.tag = "obj"
\* The nested patch at key k of patch tree p; absent means empty.
NestedPatch(p, k) == IF k \in DOMAIN p.mem THEN p.mem[k] ELSE EmptyObj
\* The keys at which object trees s and t both hold an object.
BothObjects(s, t) ==
  {k \in (DOMAIN s.mem) \cap (DOMAIN t.mem) : s.mem[k].tag = "obj" /\ t.mem[k].tag = "obj"}

RECURSIVE MarkersExactly(_, _, _)
\* The patch tree p holds null at k exactly when k is a key of s and not of
\* t, and holds t's value at every key of t that s lacks; at every level.
MarkersExactly(s, t, p) ==
  /\ p.tag = "obj"
  /\ \A k \in Keys :
       (k \in DOMAIN p.mem /\ p.mem[k].tag = "null")
         <=> (k \in DOMAIN s.mem /\ k \notin DOMAIN t.mem)
  /\ \A k \in (DOMAIN t.mem) \ (DOMAIN s.mem) :
       k \in DOMAIN p.mem /\ p.mem[k] = t.mem[k]
  /\ \A k \in BothObjects(s, t) :
       MarkersExactly(s.mem[k], t.mem[k], NestedPatch(p, k))

RECURSIVE MarkersOrNullValues(_, _, _)
\* As MarkersExactly, but p also holds null at k when t's value at k is null
\* and s's is not (s lacks k, or holds a value other than null there).
MarkersOrNullValues(s, t, p) ==
  /\ p.tag = "obj"
  /\ \A k \in Keys :
       (k \in DOMAIN p.mem /\ p.mem[k].tag = "null")
         <=> \/ k \in DOMAIN s.mem /\ k \notin DOMAIN t.mem
             \/ /\ k \in DOMAIN t.mem /\ t.mem[k].tag = "null"
                /\ ~(k \in DOMAIN s.mem /\ s.mem[k].tag = "null")
  /\ \A k \in (DOMAIN t.mem) \ (DOMAIN s.mem) :
       k \in DOMAIN p.mem /\ p.mem[k] = t.mem[k]
  /\ \A k \in BothObjects(s, t) :
       MarkersOrNullValues(s.mem[k], t.mem[k], NestedPatch(p, k))

\* C8 as stated: at every level where source and target are objects, the
\* generated patch holds k with null exactly when k is a key of the source
\* and not of the target; a key of the target that the source lacks is in
\* the patch with the target's value.
C8_DeletionMarkersExactly ==
  Generated => MarkersExactly(preA, preB, Result)

\* C8, amended: at every level where source and target are objects, the
\* generated patch holds k with null exactly when k is a key of the source
\* and not of the target, or the target's value at k is null and the
\* source's is not; a key of the target that the source lacks is in the
\* patch with the target's value.
C8_DeletionMarkers ==
  Generated => MarkersOrNullValues(preA, preB, Result)

\* A patch with a deletion marker at the top level and one at a nested
\* level, and with a key the source lacked.
C8_Witness ==
  /\ Generated
  /\ preA = TObj([a |-> TObj([a |-> NumV("1"), b |-> NumV("1")]), b |-> StrV("x")])
  /\ preB = TObj([a |-> TObj([b |-> NumV("1")])])
  /\ Result = TObj([a |-> TObj([a |-> NullV]), b |-> NullV])

(***************************************************************************)
(* C9                                                                      *)
(***************************************************************************)
RECURSIVE OnlyChanges(_, _, _)
\* The patch tree p has no key at which s and t hold equal values, and a key
\* at which both hold objects only with a non-empty nested patch; at every
\* level.
OnlyChanges(s, t, p) ==
  /\ p.tag = "obj"
  /\ \A k \in (DOMAIN s.mem) \cap (DOMAIN t.mem) :
       s.mem[k] = t.mem[k] => k \notin DOMAIN p.mem
  /\ \A k \in BothObjects(s, t) :
       k \in DOMAIN p.mem =>
         /\ p.mem[k].tag = "obj"
         /\ p.mem[k] # EmptyObj
         /\ OnlyChanges(s.mem[k], t.mem[k], p.mem[k])

\* C9: a generated patch holds only changes.  A key whose values in source
\* and target are equal is left out, a key whose values are both objects is
\* there only with a non-empty nested patch, and generatePatch(d, d) is the
\* empty object for every object d, also when d holds arrays of objects.
C9_OnlyChanges ==
  Generated =>
    /\ OnlyChanges(preA, preB, Result)
    /\ preA = preB => Result = EmptyObj

(***************************************************************************)
(* C10                                                                     *)
(***************************************************************************)
RECURSIVE Atomic(_, _, _)
\* At every key where s and t hold different values that are not both
\* objects, patch tree p holds t's whole value; at every level.
Atomic(s, t, p) ==
  /\ p.tag = "obj"
  /\ \A k \in (DOMAIN s.mem) \cap (DOMAIN t.mem) :
       k \notin BothObjects(s, t) /\ s.mem[k] # t.mem[k] =>
         k \in DOMAIN p.mem /\ p.mem[k] = t.mem[k]
  /\ \A k \in BothObjects(s, t) :
       Atomic(s.mem[k], t.mem[k], NestedPatch(p, k))

\* C10: generatePatch treats every pair that is not object/object as a
\* whole.  If the source or the target is no object, the patch is the target
\* itself; at a key of both whose values differ and are not both objects,
\* the patch holds the target's whole value: an array that differs in an
\* element, in length or in order, and a value of another type.
C10_AtomicReplacement ==
  phase = "generated" =>
    /\ preA.tag # "obj" \/ preB.tag # "obj" => res = docB /\ Result = preB
    /\ preA.tag = "obj" /\ preB.tag = "obj" => Atomic(preA, preB, Result)

\* A patch for a source and a target whose arrays hold the same elements in
\* another order and whose other key turned from a string into a number.
C10_Witness ==
  /\ Generated
  /\ preA = TObj([a |-> TArr(<<NullV, NumV("1")>>), b |-> StrV("x")])
  /\ preB = TObj([a |-> TArr(<<NumV("1"), NullV>>), b |-> NumV("1")])
  /\ Result = preB

(***************************************************************************)
(* The caller of Merge, Generate and Valid on documents of one             *)
(* representation.                                                         *)
(***************************************************************************)
\* The text of tree t, as json.Marshal may write it.
MarshalTree(t) == Marshal(Alloc(<<>>, t).h, Alloc(<<>>, t).v)

\* The JSON values of the text documents: scalars, two arrays, the objects
\* with null or a number at some keys, and these objects nested in one.
DocObjs == {TObj(f) : f \in PartialMaps(Keys, {NullV, NumV("1")})}
DocTrees ==
  Scalars \cup {TArr(<<>>), TArr(<<NullV>>)} \cup DocObjs
    \cup {TObj([k \in {SpineKey} |-> o]) : o \in DocObjs}
JsonTexts == UNION {MarshalTree(t) : t \in DocTrees}
\* Texts that are not JSON: the empty text, a bare word, an unclosed object,
\* a member without a value, an unclosed string.
Malformed ==
  {<<>>, <<"x">>, <<"{">>, <<"{", "\"", "a", "\"", ":", "}">>, <<"\"", "x">>}
Texts == JsonTexts \cup Malformed
MapTrees == {t \in DocTrees : t.tag = "obj"}
\* The values of an any: maps, that may hold a NaN, and nil, a bool, a number.
AnyTrees ==
  {TObj(f) : f \in PartialMaps(Keys, {NullV, NumV("1"), NaNV})}
    \cup {NullV, BoolV("true"), NumV("1")}
StructValues ==
  [Name : {RawStr(<<>>), StrV("x")}, Desc : {RawStr(<<>>), StrV("x")},
   Port : {NullV, NumV("1")}, Count : {NumV("0"), NumV("1")},
   Internal : {RawStr(<<>>), StrV("x")}]
Reps == {"bytes", "text", "map", "any", "struct"}
\* The documents of representation rp, before they are built.
DocsOf(rp) ==
  CASE rp \in {"bytes", "text"} -> {TextDoc(x) : x \in Texts}
    [] rp = "map" -> MapTrees
    [] rp = "any" -> AnyTrees
    [] OTHER -> {StructDoc(x) : x \in StructValues}
OnHeap(rp) == rp \in {"map", "any"}

\* The orders of the keys a range over a map takes in these calls.
DocOrders == {AllKeys, [i \in 1..Len(AllKeys) |-> AllKeys[Len(AllKeys) + 1 - i]]}
DocOptLists == UNION {[1..n -> BOOLEAN] : n \in 0..MaxDocOpts}

\* The caller's view of document doc: the tree of a map, the value otherwise.
View(h, rp, doc) == IF OnHeap(rp) THEN Read(h, doc) ELSE doc

InitDocs ==
  \E rp \in Reps :
    \E a \in DocsOf(rp), b \in DocsOf(rp) :
      LET ra == IF OnHeap(rp) THEN Alloc(<<>>, a) ELSE [h |-> <<>>, v |-> a]
          rb == IF OnHeap(rp) THEN Alloc(ra.h, b) ELSE [h |-> <<>>, v |-> b]
      IN  /\ heap = rb.h
          /\ docA = ra.v
          /\ docB = rb.v
          /\ preA = a
          /\ preB = b
          /\ res = NoVal
          /\ first = NoVal
          /\ phase = "dinit"
          /\ opt = <<>>
          /\ rep = rp
          /\ err = NoErr
          /\ calls = <<>>

\* A call Merge(docA, docB, opts...).
MergeDocCall ==
  /\ phase = "dinit"
  /\ \E opts \in DocOptLists, ord \in DocOrders :
       \E o \in MergeDoc(heap, rep, docA, docB, opts, ord) :
         /\ heap' = o.h
         /\ res' = o.doc
         /\ err' = [is |-> o.is, what |-> o.what]
         /\ opt' = opts
  /\ phase' = "dmerged"
  /\ UNCHANGED <<docA, docB, preA, preB, first, rep, calls>>

\* A call Generate(docA, docB).
GenerateDocCall ==
  /\ phase = "dinit"
  /\ \E o \in GenerateDoc(heap, rep, docA, docB) :
       /\ heap' = o.h
       /\ res' = o.doc
       /\ err' = [is |-> o.is, what |-> o.what]
  /\ phase' = "dgenerated"
  /\ UNCHANGED <<docA, docB, preA, preB, first, opt, rep, calls>>

\* A call Merge(docA, patch) with the patch Generate returned.
MergeGeneratedCall ==
  /\ phase = "dgenerated"
  /\ err = NoErr
  /\ \E ord \in DocOrders :
       \E o \in MergeDoc(heap, rep, docA, res, <<>>, ord) :
         /\ heap' = o.h
         /\ res' = o.doc
         /\ err' = [is |-> o.is, what |-> o.what]
  /\ first' = View(heap, rep, res)
  /\ phase' = "dround"
  /\ UNCHANGED <<docA, docB, preA, preB, opt, rep, calls>>

\* A call Valid(docA).
ValidCall ==
  /\ phase = "dinit"
  /\ res' = [tag |-> "valid", ok |-> Valid(heap, rep, docA)]
  /\ phase' = "dvalid"
  /\ UNCHANGED <<heap, docA, docB, preA, preB, first, opt, rep, err, calls>>

NextDocs == MergeDocCall \/ GenerateDocCall \/ MergeGeneratedCall \/ ValidCall

SpecDocs == InitDocs /\ [][NextDocs]_vars

(***************************************************************************)
(* C11: the round trip through the public Generate and Merge.              *)
(***************************************************************************)
\* The JSON value a text stands for: what it parses to, or the string of
\* the text when it does not parse.
TextValue(toks) == IF Unmarshal(toks).ok THEN Unmarshal(toks).v ELSE RawStr(toks)
\* The value of a document the caller sees as d: the JSON value of a text,
\* the tree of a map, the struct itself.
ValueOf(rp, d) == IF rp \in {"bytes", "text"} THEN TextValue(d.toks) ELSE d

\* Merge(docA, Generate(docA, docB)) has returned without an error.
RoundTrippedDocs == phase = "dround" /\ err = NoErr
\* The value of the document the last call returned.
ResultValue == ValueOf(rep, View(heap, rep, res))

\* Target value t has no null member, at any level reached through
\* objects, that source value s does not have at the same place.
Covered(s, t) == t.tag = "obj" => NullsCovered(s, t)

\* Field f is left out of the JSON text when at its zero value.
OmittedAtZero(f) == f \in OmitEmpty /\ IsEmpty(Zero(f))

\* A struct patch can say how to turn struct s into struct t: every field
\* written when at its zero value is zero in t or differs from s, every
\* field left out at its zero value that is zero in t is zero in s, and the
\* field tagged "-" is zero in t.
Expressible(s, t) ==
  /\ \A f \in DOMAIN JsonName : ~OmittedAtZero(f) => t[f] = Zero(f) \/ t[f] # s[f]
  /\ \A f \in DOMAIN JsonName : OmittedAtZero(f) => (t[f] = Zero(f) => s[f] = Zero(f))
  /\ \A f \in Excluded : t[f] = Zero(f)

WellFormed(toks) == toks \in JsonTexts

\* C12: Valid(candidate) is false for bytes that are not well-formed JSON
\* and true for every other candidate: well-formed bytes, every text
\* (well-formed JSON or not), every map and struct, nil, a bool, a number.
C12_Valid ==
  phase = "dvalid" => (res.ok <=> (rep = "bytes" => WellFormed(preA.toks)))

\* Valid has answered false for the bytes of {"a":} .
C12_Witness ==
  /\ phase = "dvalid"
  /\ rep = "bytes"
  /\ preA.toks = <<"{", "\"", "a", "\"", ":", "}">>
  /\ ~res.ok

(***************************************************************************)
(* C13: bytes that are not JSON.                                           *)
(***************************************************************************)
\* The last call was given bytes that are not well-formed JSON.
BadBytes == rep = "bytes" /\ (~WellFormed(preA.toks) \/ ~WellFormed(preB.toks))

NumCallers == 2

Callers == 1..NumCallers
\* Tree t holds objects at the spine key only.
SpineOnly(t) == \A k \in DOMAIN t.mem : t.mem[k].tag = "obj" => k = SpineKey
\* The shared targets: a nested object at the spine key, a number elsewhere.
ConcTargets ==
  {t \in {TObj(f) : f \in PartialMaps(Keys, {NumV("1"), TObj([b |-> NumV("1")])})} :
     SpineOnly(t) /\ (SpineKey \in DOMAIN t.mem => t.mem[SpineKey].tag = "obj")}
\* The patches: a deletion or a nested object at the spine key, a deletion
\* elsewhere.
ConcPatches ==
  {t \in {TObj(f) : f \in PartialMaps(Keys, {NullV, TObj([a |-> NumV("1")])})} :
     SpineOnly(t)}

RECURSIVE AllocAll(_, _), Reach(_, _)
\* The heap after the trees of ts are built one after the other, and the
\* values built.
AllocAll(h, ts) ==
  IF ts = <<>> THEN [h |-> h, vs |-> <<>>]
  ELSE LET r1 == Alloc(h, Head(ts))
           r2 == AllocAll(r1.h, Tail(ts))
       IN  [h |-> r2.h, vs |-> <<r1.v>> \o r2.vs]

\* The cells of heap h that can be reached from value v.
Reach(h, v) ==
  CASE v.tag = "obj" -> {v.ptr} \cup UNION {Reach(h, h[v.ptr].m[k]) : k \in DOMAIN h[v.ptr].m}
    [] v.tag = "arr" -> {v.ptr} \cup UNION {Reach(h, h[v.ptr].s[i]) : i \in DOMAIN h[v.ptr].s}
    [] OTHER -> {}

\* The cells both heaps have whose content differs.
Written(h1, h2) == {p \in 1..Len(h1) : h2[p] # h1[p]}

InitConc ==
  \E t \in ConcTargets, ps \in [Callers -> ConcPatches] :
    LET rt == Alloc(<<>>, t)
        rp == AllocAll(rt.h, ps)
    IN  /\ heap = rp.h
        /\ docA = rt.v
        /\ docB = NoVal
        /\ preA = t
        /\ preB = NoVal
        /\ res = NoVal
        /\ first = NoVal
        /\ phase = "conc"
        /\ opt = <<>>
        /\ rep = "map"
        /\ err = NoErr
        /\ calls = [i \in Callers |->
                      [pc |-> "start", patch |-> rp.vs[i], pre |-> ps[i], work |-> NoVal,
                       names |-> <<>>, res |-> NoVal, wrote |-> {}]]

\* Call i converts its documents and copies the target; the range over its
\* patch will take the names in some order.
CallClone(i) ==
  /\ calls[i].pc = "start"
  /\ \E ord \in KeyOrders :
       LET t == convertToInterface(heap, docA)
           p == convertToInterface(t.h, calls[i].patch)
           c == Clone(p.h, t.v)
       IN  /\ heap' = c.h
           /\ calls' = [calls EXCEPT ![i].pc = "merge", ![i].work = c.v,
                                     ![i].names = InOrder(DOMAIN heap[p.v.ptr].m, ord),
                                     ![i].wrote = @ \cup Written(heap, c.h)]
  /\ UNCHANGED <<docA, docB, preA, preB, res, first, phase, opt, rep, err>>

\* Call i runs the body of the range over its patch for the next name.
CallMergeStep(i) ==
  /\ calls[i].pc = "merge"
  /\ calls[i].names # <<>>
  /\ \E ord \in KeyOrders :
       LET h == mergeRange(heap, calls[i].work.ptr, calls[i].patch.ptr,
                           <<Head(calls[i].names)>>, ord)
       IN  /\ heap' = h
           /\ calls' = [calls EXCEPT ![i].names = Tail(@),
                                     ![i].wrote = @ \cup Written(heap, h)]
  /\ UNCHANGED <<docA, docB, preA, preB, res, first, phase, opt, rep, err>>

\* Call i converts the merged value to a map and returns it.
CallReturn(i) ==
  /\ calls[i].pc = "merge"
  /\ calls[i].names = <<>>
  /\ LET r == convertFromInterface(heap, calls[i].work)
     IN  /\ heap' = r.h
         /\ calls' = [calls EXCEPT ![i].pc = "done", ![i].res = r.doc]
  /\ UNCHANGED <<docA, docB, preA, preB, res, first, phase, opt, rep, err>>

NextConc == \E i \in Callers : CallClone(i) \/ CallMergeStep(i) \/ CallReturn(i)

SpecConc == InitConc /\ [][NextConc]_vars

(***************************************************************************)
(* C15: concurrent calls in default mode.                                  *)
(***************************************************************************)
\* The cells the caller and the calls other than i can reach.
OthersReach(i) ==
  Reach(heap, docA)
    \cup UNION {Reach(heap, calls[j].patch) : j \in Callers}
    \cup UNION {Reach(heap, calls[j].work) \cup Reach(heap, calls[j].res) : j \in Callers \ {i}}

\* C15: with concurrent calls of Merge in default mode on one shared target,
\* in every interleaving each call that has returned returned the merge of
\* the original target with its own patch, no call has written a cell that
\* the caller or another call can reach, and the shared target is as it was
\* when all calls have returned.
C15_ConcurrentCalls ==
  phase = "conc" =>
    /\ \A i \in Callers :
         /\ calls[i].pc = "done" =>
              Read(heap, calls[i].res) = RfcMergePatch(preA, calls[i].pre)
         /\ calls[i].wrote \cap OthersReach(i) = {}
    /\ (\A i \in Callers : calls[i].pc = "done") => Read(heap, docA) = preA

\* Both calls have returned, one after changing a nested member of its copy
\* and the other after deleting that member, and the target is as it was.
C15_Witness ==
  /\ phase = "conc"
  /\ \A i \in Callers : calls[i].pc = "done"
  /\ preA = TObj([a |-> TObj([b |-> NumV("1")]), b |-> NumV("1")])
  /\ calls[1].pre = TObj([a |-> TObj([a |-> NumV("1")])])
  /\ calls[2].pre = TObj([a |-> NullV])
  /\ Read(heap, calls[1].res) = TObj([a |-> TObj([a |-> NumV("1"), b |-> NumV("1")]), b |-> NumV("1")])
  /\ Read(heap, calls[2].res) = TObj([b |-> NumV("1")])
  /\ calls[1].wrote # {}
  /\ Read(heap, docA) = preA

(***************************************************************************)
(* C16: struct documents.                                                  *)
(***************************************************************************)
\* Merge has returned a struct.
MergedStruct == phase = "dmerged" /\ rep = "struct" /\ err = NoErr
\* The patch struct as a JSON value.
PatchMembers == DOMAIN Unmarshal(MarshalStruct(preB.f)).v.mem

InitCells == Len(Alloc(Alloc(<<>>, preA).h, preB).h)

\* C17 as stated: the object Merge returns for an object patch is a
\* container distinct from the caller's target and from the patch.
C17_FreshObject ==
  phase = "merged" => res.tag = "obj" /\ res.ptr \notin {docA.ptr, docB.ptr}

\* C17, amended: in default mode the object Merge returns for an object
\* patch is a container made by the call, so distinct from the caller's
\* target and from the patch; in mutate mode it is the caller's target
\* container; and the merge engine, given a target that is not an object,
\* returns a container made by the call.
C17_FreshObjectByDefault ==
  /\ (phase = "merged" /\ ~MutateOf(opt)) => res.tag = "obj" /\ res.ptr > InitCells
  /\ (phase = "merged" /\ MutateOf(opt)) => res = docA
  /\ (Applied /\ preB.tag = "obj" /\ preA.tag # "obj") =>
       res.tag = "obj" /\ res.ptr > InitCells

\* A default-mode Merge that changed a nested member returned a container
\* the call made, and left the target's container as it was.
C17_Witness ==
  /\ phase = "merged"
  /\ opt = <<>>
  /\ preA = TObj([a |-> TObj([a |-> NumV("1")]), b |-> NumV("1")])
  /\ preB = TObj([a |-> TObj([a |-> StrV("x")])])
  /\ res.ptr > InitCells
  /\ Result = TObj([a |-> TObj([a |-> StrV("x")]), b |-> NumV("1")])
  /\ Read(heap, docA) = preA

(***************************************************************************)
(* C18: containers shared between the documents of a call.                 *)
(***************************************************************************)
\* The cells the caller's target and patch (source and target) reach.
InputCells == Reach(heap, docA) \cup Reach(heap, docB)

\* C18 as stated: the document a default-mode Merge returns, and the patch
\* Generate returns for map documents, reach no object and no array that the
\* caller's documents reach.
C18_NoSharedContainer ==
  /\ (phase = "merged" /\ ~MutateOf(opt)) => Reach(heap, res) \cap InputCells = {}
  /\ (phase = "generated" /\ preA.tag = "obj" /\ preB.tag = "obj") =>
       Reach(heap, res) \cap InputCells = {}

(***************************************************************************)
(* C19: calls that return an error.                                        *)
(***************************************************************************)
\* Merge or Generate has returned an error.
Failed == phase \in {"dmerged", "dgenerated"} /\ err # NoErr

\* C19: when Merge or Generate returns an error, no document is returned
\* (Merge returns nil, Generate the zero document) and the caller's
\* documents are as they were before the call.
C19_FailuresAtomic ==
  Failed =>
    /\ res = IF phase = "dmerged" THEN NoVal ELSE ZeroDoc(rep)
    /\ View(heap, rep, docA) = preA
    /\ View(heap, rep, docB) = preB

(***************************************************************************)
(* C20: the two modes of Merge.                                            *)
(***************************************************************************)
\* What a call returned: the errors its error matches and the document, as
\* the caller sees it in heap h.
Outcome(h, rp, is, doc) ==
  [is |-> is, doc |-> IF doc = NoVal THEN NoVal ELSE View(h, rp, doc)]

\* What Merge in default mode may return for the documents the caller had
\* before the call.
DefaultOutcomes ==
  LET ra == IF OnHeap(rep) THEN Alloc(<<>>, preA) ELSE [h |-> <<>>, v |-> preA]
      rb == IF OnHeap(rep) THEN Alloc(ra.h, preB) ELSE [h |-> <<>>, v |-> preB]
  IN  UNION {{Outcome(o.h, rep, o.is, o.doc) :
                o \in MergeDoc(rb.h, rep, ra.v, rb.v, <<>>, ord)} : ord \in DocOrders}

\* The last option of the call is WithMutate(true).
LastMutate == opt # <<>> /\ opt[Len(opt)]

MergeTreesIn(t, p, ord) ==
  LET a == Alloc(<<>>, t)
      b == Alloc(a.h, p)
      r == mergePatch(b.h, a.v, b.v, ord)
  IN  Read(r.h, r.v)
\* C21: the result of a merge does not depend on the order in which the
\* members of the patch are processed: after a call of the merge engine
\* with an object patch, and after a call of Merge, the result is the tree
\* the merge returns under every enumeration order of the keys.
C21_OrderIndependent ==
  /\ (Applied /\ preB.tag = "obj") =>
       \A ord \in KeyOrders : MergeTreesIn(preA, preB, ord) = Result
  /\ phase = "merged" =>
       \A ord \in KeyOrders : MergeTreesIn(preA, preB, ord) = Result
\* A patch whose two members are a deletion and a nested merge, applied to
\* a target that holds both keys.
C21_Witness ==
  /\ Applied
  /\ preA = TObj([a |-> TObj([a |-> NumV("1"), b |-> NumV("1")]), b |-> StrV("x")])
  /\ preB = TObj([a |-> TObj([a |-> NullV, b |-> StrV("x")]), b |-> NullV])
  /\ Result = TObj([a |-> TObj([b |-> StrV("x")])])


(***************************************************************************)
(* C22                                                                     *)
(***************************************************************************)
\* The heap the caller of SpecDocs built its map documents on.
CallerHeap == Alloc(Alloc(<<>>, preA).h, preB).h

RECURSIVE KeptContainers(_, _, _, _)
\* Every nested object of the map at address p of heap h0 that object patch
\* tree q merges into is, in heap h, still the member of the same map, at
\* every level.
KeptContainers(h0, h, p, q) ==
  \A k \in DOMAIN q.mem :
    (q.mem[k].tag = "obj" /\ k \in DOMAIN h0[p].m /\ isObject(h0[p].m[k])) =>
      /\ k \in DOMAIN h[p].m
      /\ h[p].m[k] = h0[p].m[k]
      /\ KeptContainers(h0, h, h0[p].m[k].ptr, q.mem[k])

\* C22: a successful Merge whose last option is WithMutate(true), on map
\* documents, returns the caller's target container, which then holds the
\* merged document, and every nested object of the target that the patch
\* merges into is still the same container; a text, bytes or struct target
\* is as it was before the call.
C22_InPlace ==
  (phase = "dmerged" /\ LastMutate) =>
    /\ (rep = "map" /\ err = NoErr) =>
         /\ res = docA
         /\ Read(heap, docA) = RfcMergePatch(preA, preB)
         /\ KeptContainers(CallerHeap, heap, docA.ptr, preB)
    /\ rep \in {"text", "bytes", "struct"} => docA = preA
\* A mutating Merge has merged into a nested object of the target, which
\* now holds other members than before.
C22_Witness ==
  /\ phase = "dmerged" /\ LastMutate /\ rep = "map" /\ err = NoErr
  /\ preA = TObj([a |-> TObj([a |-> NumV("1")])])
  /\ preB = TObj([a |-> TObj([a |-> NullV, b |-> NumV("1")])])
  /\ heap[docA.ptr].m["a"] = CallerHeap[docA.ptr].m["a"]
  /\ Read(heap, docA) = TObj([a |-> TObj([b |-> NumV("1")])])


(***************************************************************************)
(* C23                                                                     *)
(***************************************************************************)
\* C23: deepEqual answers with structural equality: true exactly when the
\* two values are the same tree (same variant, arrays equal element by
\* element, objects equal key by key), which also makes the answer the same
\* every time the same pair is compared.
C23_StructuralEquality ==
  phase = "compared" => (res.eq <=> preA = preB)


(***************************************************************************)
(* Chains of merges: each result is the target of the next merge.  calls   *)
(* holds, for every merge of the chain, the patch, the document returned   *)
(* and the value that document had when it was returned.                   *)
(***************************************************************************)
\* The most merges of a chain.
MaxChain == 3
\* The first targets of a chain: objects, and for the merge engine also
\* values that are no objects.
ChainObjs ==
  {EmptyObj, TObj([a |-> NumV("1"), b |-> NumV("1")]),
   TObj([a |-> TObj([a |-> NumV("1")])]),
   TObj([a |-> TObj([a |-> NumV("1"), b |-> NumV("1")]), b |-> NumV("1")])}
ChainValues == ChainObjs \cup {NullV, TArr(<<NumV("1")>>)}
\* The patches of a chain: at key a nothing, a deletion, a number or a
\* nested object; at key b nothing or an array.
ChainPatches ==
  {t \in {TObj(f) : f \in PartialMaps(Keys,
             {NullV, NumV("1"), TArr(<<NumV("1")>>), TObj([a |-> NumV("1")]),
              TObj([a |-> NullV, b |-> StrV("x")])})} :
     /\ SpineOnly(t)
     /\ "a" \in DOMAIN t.mem => t.mem["a"].tag # "arr"
     /\ "b" \in DOMAIN t.mem => t.mem["b"].tag = "arr"}

InitChain ==
  \E rp \in {"map", "engine"} :
    \E t \in IF rp = "map" THEN ChainObjs ELSE ChainValues :
      LET rt == Alloc(<<>>, t)
      IN  /\ heap = rt.h
          /\ docA = rt.v
          /\ docB = NoVal
          /\ preA = t
          /\ preB = NoVal
          /\ res = NoVal
          /\ first = NoVal
          /\ phase = "chain"
          /\ opt = <<>>
          /\ rep = rp
          /\ err = NoErr
          /\ calls = <<>>

\* The target of the next merge of the chain.
ChainState == IF calls = <<>> THEN docA ELSE calls[Len(calls)].res

\* state = Merge(state, patch).Doc in default mode, with a patch the caller
\* has just built.
ChainMerge ==
  /\ rep = "map"
  /\ Len(calls) < MaxChain
  /\ \E p \in ChainPatches, ord \in KeyOrders :
       LET b == Alloc(heap, p)
           r == Merge(b.h, ChainState, b.v, <<>>, ord)
       IN  /\ heap' = r.h
           /\ calls' = Append(calls, [pre |-> p, res |-> r.doc, snap |-> Read(r.h, r.doc)])
  /\ UNCHANGED <<docA, docB, preA, preB, res, first, phase, opt, rep, err>>

\* state = mergePatch(state, patch) of the merge engine.
ChainApply ==
  /\ rep = "engine"
  /\ Len(calls) < MaxChain
  /\ \E p \in ChainPatches, ord \in KeyOrders :
       LET b == Alloc(heap, p)
           r == mergePatch(b.h, ChainState, b.v, ord)
       IN  /\ heap' = r.h
           /\ calls' = Append(calls, [pre |-> p, res |-> r.v, snap |-> Read(r.h, r.v)])
  /\ UNCHANGED <<docA, docB, preA, preB, res, first, phase, opt, rep, err>>

NextChain == ChainMerge \/ ChainApply

SpecChain == InitChain /\ [][NextChain]_vars

(***************************************************************************)
(* C24                                                                     *)
(***************************************************************************)
\* The value the chain had before its merge j.
Before(j) == IF j = 1 THEN preA ELSE calls[j - 1].snap
\* The merges of the chain whose patch names key k.
Naming(k) == {j \in DOMAIN calls : k \in DOMAIN calls[j].pre.mem}
\* The last merge of the chain whose patch names key k.
LastNaming(k) == CHOOSE j \in Naming(k) : \A i \in Naming(k) : i <= j
\* Object tree r has at key k what patch member v set there in object
\* tree t: nothing for a deletion, else the merge of t's member with v.
SetBy(t, v, r, k) ==
  IF v.tag = "null" THEN k \notin DOMAIN r.mem
  ELSE k \in DOMAIN r.mem /\ r.mem[k] = RfcMergePatch(MemberOrNull(t, k), v)
\* Object trees t and r agree at key k.
SameAt(t, r, k) ==
  (k \in DOMAIN t.mem <=> k \in DOMAIN r.mem)
    /\ (k \in DOMAIN t.mem => t.mem[k] = r.mem[k])

\* C24: in a chain of default-mode merges the first target and every
\* result returned so far have the value they had when they were returned,
\* and the last result holds at each key what the last patch naming the
\* key set there, and at a key no patch named what the first target holds.
C24_ChainKeepsResults ==
  (phase = "chain" /\ rep = "map") =>
    /\ Read(heap, docA) = preA
    /\ \A j \in DOMAIN calls : Read(heap, calls[j].res) = calls[j].snap
    /\ calls # <<>> =>
         LET last == Read(heap, calls[Len(calls)].res)
         IN  \A k \in Keys :
               IF Naming(k) = {} THEN SameAt(preA, last, k)
               ELSE SetBy(Before(LastNaming(k)), calls[LastNaming(k)].pre.mem[k], last, k)
\* Three merges: the first sets key a to a nested object, the second merges
\* into it, the third sets key b to an array; the first result still has
\* its value.
C24_Witness ==
  /\ phase = "chain" /\ rep = "map" /\ Len(calls) = 3
  /\ preA = TObj([a |-> NumV("1"), b |-> NumV("1")])
  /\ calls[1].pre = TObj([a |-> TObj([a |-> NumV("1")])])
  /\ calls[2].pre = TObj([a |-> TObj([a |-> NullV, b |-> StrV("x")])])
  /\ calls[3].pre = TObj([b |-> TArr(<<NumV("1")>>)])
  /\ Read(heap, calls[1].res) = TObj([a |-> TObj([a |-> NumV("1")]), b |-> NumV("1")])
  /\ Read(heap, calls[3].res) = TObj([a |-> TObj([b |-> StrV("x")]), b |-> TArr(<<NumV("1")>>)])


(***************************************************************************)
(* C30                                                                     *)
(***************************************************************************)
\* The object holding the members of object trees p and q.
Combined(p, q) ==
  TObj([k \in (DOMAIN p.mem) \cup (DOMAIN q.mem) |->
          IF k \in DOMAIN p.mem THEN p.mem[k] ELSE q.mem[k]])
\* The first two patches of the chain name no key in common.
DisjointPatches ==
  /\ Len(calls) = 2
  /\ (DOMAIN calls[1].pre.mem) \cap (DOMAIN calls[2].pre.mem) = {}

\* C30: patches on disjoint keys commute: when the merge engine has applied
\* patch p and then patch q to target t, and p and q name no key in common,
\* the result is the value of applying q and then p to t, and the value of
\* applying to t the object that holds the members of both.
C30_DisjointCommute ==
  (phase = "chain" /\ rep = "engine" /\ DisjointPatches) =>
    LET p == calls[1].pre
        q == calls[2].pre
        pq == Read(heap, calls[2].res)
    IN  /\ pq = MergeTrees(MergeTrees(preA, q), p)
        /\ pq = MergeTrees(preA, Combined(p, q))
\* A patch that merges into the nested object at key a, then one that sets
\* key b, applied to a target holding both keys.
C30_Witness ==
  /\ phase = "chain" /\ rep = "engine" /\ DisjointPatches
  /\ preA = TObj([a |-> TObj([a |-> NumV("1"), b |-> NumV("1")]), b |-> NumV("1")])
  /\ calls[1].pre = TObj([a |-> TObj([a |-> NullV, b |-> StrV("x")])])
  /\ calls[2].pre = TObj([b |-> TArr(<<NumV("1")>>)])
  /\ Read(heap, calls[2].res) = TObj([a |-> TObj([b |-> StrV("x")]), b |-> TArr(<<NumV("1")>>)])


(***************************************************************************)
(* C26                                                                     *)
(***************************************************************************)
RECURSIVE NoNullMember(_)
\* Object tree t holds no null as the value of a member, at any level
\* reached through objects (the elements of arrays are not looked at).
NoNullMember(t) ==
  \A k \in DOMAIN t.mem :
    /\ t.mem[k].tag # "null"
    /\ t.mem[k].tag = "obj" => NoNullMember(t.mem[k])

\* C26: when the target is an object without a null member at any level
\* reached through objects, the generated patch applied to any object
\* source gives the target.
C26_RoundTripNoNull ==
  (phase = "roundtrip" /\ preA.tag = "obj" /\ preB.tag = "obj" /\ NoNullMember(preB))
    => Result = preB
\* A round trip to a target without null members, from a source that holds
\* nulls: a nested null member is deleted, a null member is set.
C26_Witness ==
  /\ phase = "roundtrip"
  /\ preA = TObj([a |-> TObj([a |-> NullV, b |-> NumV("1")]), b |-> NullV])
  /\ preB = TObj([a |-> TObj([b |-> NumV("1")]), b |-> StrV("x")])
  /\ first = TObj([a |-> TObj([a |-> NullV]), b |-> StrV("x")])
  /\ Result = preB

(***************************************************************************)
(* C27                                                                     *)
(***************************************************************************)
RECURSIVE NullsFromTarget(_, _, _)
\* In object tree r, the result of merging object patch tree p into tree t,
\* no key p names holds null, at every level p reaches through objects, and
\* every member at a key p does not name is the member t has there.
NullsFromTarget(t, p, r) ==
  \A k \in DOMAIN r.mem :
    IF k \in DOMAIN p.mem
    THEN /\ r.mem[k].tag # "null"
         /\ p.mem[k].tag = "obj" =>
              /\ r.mem[k].tag = "obj"
              /\ NullsFromTarget(MemberOrNull(t, k), p.mem[k], r.mem[k])
    ELSE t.tag = "obj" /\ k \in DOMAIN t.mem /\ r.mem[k] = t.mem[k]

\* C27: an object patch introduces no null member: after the merge engine
\* applied an object patch, no key the patch names holds null in the
\* result, at every level the patch reaches through objects, and the other
\* members of the result, null or not, are the target's own.
C27_NoNullIntroduced ==
  (Applied /\ preB.tag = "obj") =>
    Result.tag = "obj" /\ NullsFromTarget(preA, preB, Result)
\* A patch with a null member and a nested null member, applied to a target
\* that holds a null the patch does not name: that null is the only one in
\* the result.
C27_Witness ==
  /\ Applied
  /\ preA = TObj([a |-> TObj([a |-> NullV, b |-> NumV("1")]), b |-> NumV("1")])
  /\ preB = TObj([a |-> TObj([b |-> NullV]), b |-> NullV])
  /\ Result = TObj([a |-> TObj([a |-> NullV])])


(***************************************************************************)
(* Calls on map documents that share containers: the patch is the target   *)
(* map itself, or the two maps hold the same nested map.  first holds the  *)
(* heap cells both documents reach before the call.                        *)
(***************************************************************************)
\* The documents of a call without shared containers, and of a call whose
\* patch is its target.
ShareDocs ==
  {TObj(f) : f \in PartialMaps(Keys, {NullV, NumV("1")})}
    \cup {TObj([a |-> TObj([a |-> NullV, b |-> NumV("1")])]),
          TObj([a |-> TObj([b |-> NumV("1")]), b |-> NumV("1")])}
\* The nested maps two documents may share.
SharedMaps == {TObj([a |-> NullV, b |-> NumV("1")]), TObj([b |-> NumV("1")])}
\* The members a document may hold beside the shared map.
OwnMembers == PartialMaps(Keys \ {SpineKey}, {NullV, NumV("1")})

\* The heap and the two documents of a caller: built apart from trees a and
\* b, or one map that is both documents, or two maps that hold the same
\* nested map at the spine key.
Apart(a, b) ==
  LET ra == Alloc(<<>>, a)
      rb == Alloc(ra.h, b)
  IN  [h |-> rb.h, a |-> ra.v, b |-> rb.v]
SameMap(a) ==
  LET ra == Alloc(<<>>, a)
  IN  [h |-> ra.h, a |-> ra.v, b |-> ra.v]
SameNested(x, fa, fb) ==
  LET rx == Alloc(<<>>, x)
      n == Len(rx.h)
  IN  [h |-> rx.h \o <<MapCell(Put(fa, SpineKey, rx.v)), MapCell(Put(fb, SpineKey, rx.v))>>,
       a |-> ObjRef(n + 1), b |-> ObjRef(n + 2)]
SharingCallers ==
  {Apart(a, b) : a \in ShareDocs, b \in ShareDocs}
    \cup {SameMap(a) : a \in ShareDocs}
    \cup {SameNested(x, fa, fb) : x \in SharedMaps, fa \in OwnMembers, fb \in OwnMembers}

InitShare ==
  \E c \in SharingCallers :
    /\ heap = c.h
    /\ docA = c.a
    /\ docB = c.b
    /\ preA = Read(c.h, c.a)
    /\ preB = Read(c.h, c.b)
    /\ res = NoVal
    /\ first = Reach(c.h, c.a) \cap Reach(c.h, c.b)
    /\ phase = "sinit"
    /\ opt = <<>>
    /\ rep = "map"
    /\ err = NoErr
    /\ calls = <<>>

\* A call Merge(docA, docB, opts...) on the caller's maps.
ShareMerge ==
  /\ phase = "sinit"
  /\ \E opts \in OptLists, ord \in KeyOrders :
       LET r == Merge(heap, docA, docB, opts, ord)
       IN  /\ heap' = r.h
           /\ res' = r.doc
           /\ opt' = opts
  /\ phase' = "smerged"
  /\ UNCHANGED <<docA, docB, preA, preB, first, rep, err, calls>>

\* A call Generate(docA, docB) on the caller's maps: for maps the
\* conversions return the maps themselves, and generatePatch does the work.
ShareGenerate ==
  /\ phase = "sinit"
  /\ \E r \in generatePatch(heap, docA, docB) :
       /\ heap' = r.h
       /\ res' = r.v
  /\ phase' = "sgenerated"
  /\ UNCHANGED <<docA, docB, preA, preB, first, opt, rep, err, calls>>

NextShare == ShareMerge \/ ShareGenerate

SpecShare == InitShare /\ [][NextShare]_vars

NilTargets ==
  {NilMap, EmptyObj, TObj([a |-> NumV("1")]), TObj([a |-> NumV("1"), b |-> NumV("1")]),
   TObj([a |-> TObj([b |-> NumV("1")])])}
\* The patches: a nil map, and maps that set and delete members.
NilPatches ==
  {TObj(f) : f \in PartialMaps(Keys, {NullV, NumV("1")})}
    \cup {NilMap, TObj([a |-> TObj([b |-> NumV("1")])])}

InitNil ==
  \E a \in NilTargets, b \in NilPatches :
    LET ra == Alloc(<<>>, a)
        rb == Alloc(ra.h, b)
    IN  /\ heap = rb.h
        /\ docA = ra.v
        /\ docB = rb.v
        /\ preA = a
        /\ preB = b
        /\ res = NoVal
        /\ first = NoVal
        /\ phase = "ninit"
        /\ opt = <<>>
        /\ rep = "map"
        /\ err = NoErr
        /\ calls = <<>>

\* A call Merge(docA, docB, opts...).
NilMerge ==
  /\ phase = "ninit"
  /\ \E opts \in OptLists, ord \in KeyOrders :
       LET r == Merge(heap, docA, docB, opts, ord)
       IN  /\ heap' = r.h
           /\ res' = r.doc
           /\ err' = [is |-> IF r.err = "nil" THEN {} ELSE {r.err}, what |-> "result"]
           /\ opt' = opts
  /\ phase' = "nmerged"
  /\ UNCHANGED <<docA, docB, preA, preB, first, rep, calls>>

NextNil == NilMerge

SpecNil == InitNil /\ [][NextNil]_vars

(***************************************************************************)
(* C29                                                                     *)
(***************************************************************************)
\* C29: Merge on maps, empty and nil maps included, in either mode, returns
\* a document and no error, and does not panic.
C29_TotalOnMaps ==
  phase = "nmerged" => (err.is = {} /\ isObject(res))


(***************************************************************************)
(* The two engines step by step, with the call stack made explicit.  calls *)
(* is the stack of the calls in progress, the innermost last; a frame      *)
(* holds the function, the place it is at, its two arguments x and y, the  *)
(* map it writes (targetObj or patch), the keys its range has left and the *)
(* key whose nested call it waits for.  first counts the calls begun.      *)
(***************************************************************************)
\* A frame of a call fn(x, y) that has not run yet.
Frame(fn, x, y) ==
  [fn |-> fn, pc |-> "enter", x |-> x, y |-> y, obj |-> 0, keys |-> <<>>, key |-> ""]
\* The documents: nested at the spine key to depth three.
StackDocs ==
  {NullV, NumV("1"), EmptyObj,
   TObj([a |-> NumV("1"), b |-> NullV]),
   TObj([a |-> TObj([b |-> NumV("1")])]),
   TObj([a |-> TObj([a |-> NullV, b |-> NumV("1")]), b |-> NumV("1")]),
   TObj([a |-> TObj([a |-> TObj([a |-> NumV("1")])])]),
   TObj([a |-> TObj([a |-> TObj([b |-> NullV]), b |-> TArr(<<NumV("1")>>)]), b |-> NumV("1")])}

InitStack ==
  \E fn \in {"merge", "generate"}, a \in StackDocs, b \in StackDocs :
    LET ra == Alloc(<<>>, a)
        rb == Alloc(ra.h, b)
    IN  /\ heap = rb.h
        /\ docA = ra.v
        /\ docB = rb.v
        /\ preA = a
        /\ preB = b
        /\ res = NoVal
        /\ first = 1
        /\ phase = "running"
        /\ opt = <<>>
        /\ rep = fn
        /\ err = NoErr
        /\ calls = <<Frame(fn, ra.v, rb.v)>>

\* The innermost call and the calls around it.
Top == calls[Len(calls)]
Outer == SubSeq(calls, 1, Len(calls) - 1)
\* The stack with the innermost frame replaced by f.
WithTop(f) == Outer \o <<f>>

\* The innermost call returns v, on heap h: the caller stores the value as
\* its code says and goes on with its range; the outermost call is done.
Return(h, v) ==
  IF Len(calls) = 1
  THEN /\ calls' = <<>>
       /\ heap' = h
       /\ res' = v
       /\ phase' = "done"
       /\ first' = first
  ELSE LET caller == calls[Len(calls) - 1]
           back == [caller EXCEPT !.pc = "loop", !.keys = Tail(@)]
       IN  /\ calls' = SubSeq(calls, 1, Len(calls) - 2) \o <<back>>
           /\ heap' = IF caller.fn = "merge" \/ Cardinality(DOMAIN h[v.ptr].m) > 0
                      THEN Store(h, caller.obj, caller.key, v)
                      ELSE h
           /\ UNCHANGED <<res, phase, first>>

\* The innermost call starts the nested call fn(x, y) for the key its range
\* is at.
Call(fn, x, y) ==
  /\ calls' = WithTop([Top EXCEPT !.pc = "wait", !.key = Head(Top.keys)]) \o <<Frame(fn, x, y)>>
  /\ first' = first + 1
  /\ UNCHANGED <<heap, res, phase>>

\* NextKey with a slip: the range stays at the key it is at.
NextKey_Stays(h) ==
  /\ calls' = calls
  /\ heap' = h
  /\ UNCHANGED <<res, phase, first>>
\* The innermost call goes on with the next key of its range, on heap h.
NextKey(h) ==
  /\ calls' = WithTop([Top EXCEPT !.keys = Tail(@)])
  /\ heap' = h
  /\ UNCHANGED <<res, phase, first>>

\* mergePatch up to its range: a patch that is no object is returned, else
\* targetObj is the target or a new map.
MergeEnter ==
  /\ calls # <<>> /\ Top.fn = "merge" /\ Top.pc = "enter"
  /\ IF ~isObject(Top.y) THEN Return(heap, Top.y)
     ELSE \E ord \in KeyOrders :
            LET fresh == ~isObject(Top.x)
                obj == IF fresh THEN Len(heap) + 1 ELSE Top.x.ptr
            IN  /\ heap' = IF fresh THEN Append(heap, MapCell(EmptyMap)) ELSE heap
                /\ calls' = WithTop([Top EXCEPT !.pc = "loop", !.obj = obj,
                                       !.keys = InOrder(DOMAIN heap[Top.y.ptr].m, ord)])
                /\ UNCHANGED <<res, phase, first>>
  /\ UNCHANGED <<docA, docB, preA, preB, opt, rep, err>>

\* One round of the range over patchObj: a deletion, or the nested call.
MergeRound ==
  /\ calls # <<>> /\ Top.fn = "merge" /\ Top.pc = "loop" /\ Top.keys # <<>>
  /\ LET name == Head(Top.keys)
         value == heap[Top.y.ptr].m[name]
     IN  IF value.tag = "null" THEN NextKey(Delete(heap, Top.obj, name))
         ELSE Call("merge",
                   IF name \in DOMAIN heap[Top.obj].m THEN heap[Top.obj].m[name] ELSE NullV,
                   value)
  /\ UNCHANGED <<docA, docB, preA, preB, opt, rep, err>>

\* mergePatch after its range: targetObj is returned.
MergeReturn ==
  /\ calls # <<>> /\ Top.fn = "merge" /\ Top.pc = "loop" /\ Top.keys = <<>>
  /\ Return(heap, ObjRef(Top.obj))
  /\ UNCHANGED <<docA, docB, preA, preB, opt, rep, err>>

\* generatePatch up to its first range: the target is returned unless both
\* arguments are objects, else patch is a new map.
GenEnter ==
  /\ calls # <<>> /\ Top.fn = "generate" /\ Top.pc = "enter"
  /\ IF ~isObject(Top.y) \/ ~isObject(Top.x) THEN Return(heap, Top.y)
     ELSE \E ord \in KeyOrders :
            /\ heap' = Append(heap, MapCell(EmptyMap))
            /\ calls' = WithTop([Top EXCEPT !.pc = "loop", !.obj = Len(heap) + 1,
                                   !.keys = InOrder(DOMAIN heap[Top.y.ptr].m, ord)])
            /\ UNCHANGED <<res, phase, first>>
  /\ UNCHANGED <<docA, docB, preA, preB, opt, rep, err>>

\* One round of the range over targetObj: the nested call when both values
\* are objects, else the value is put into the patch when it is new or
\* deepEqual answers false.
GenRound ==
  /\ calls # <<>> /\ Top.fn = "generate" /\ Top.pc = "loop" /\ Top.keys # <<>>
  /\ LET key == Head(Top.keys)
         targetValue == heap[Top.y.ptr].m[key]
         sourceObj == heap[Top.x.ptr].m
     IN  IF key \in DOMAIN sourceObj
         THEN IF isObject(sourceObj[key]) /\ isObject(targetValue)
              THEN Call("generate", sourceObj[key], targetValue)
              ELSE \E eq \in deepEqual(heap, sourceObj[key], targetValue) :
                     NextKey(IF ~eq THEN Store(heap, Top.obj, key, targetValue) ELSE heap)
         ELSE NextKey(Store(heap, Top.obj, key, targetValue))
  /\ UNCHANGED <<docA, docB, preA, preB, opt, rep, err>>

\* generatePatch after its first range: the range over sourceObj puts the
\* deletion markers, and patch is returned.
GenReturn ==
  /\ calls # <<>> /\ Top.fn = "generate" /\ Top.pc = "loop" /\ Top.keys = <<>>
  /\ \E ord \in KeyOrders :
       Return(genSourceRange(heap, Top.x.ptr, Top.y.ptr, Top.obj,
                             InOrder(DOMAIN heap[Top.x.ptr].m, ord)),
              ObjRef(Top.obj))
  /\ UNCHANGED <<docA, docB, preA, preB, opt, rep, err>>

NextStack ==
  \/ MergeEnter \/ MergeRound \/ MergeReturn
  \/ GenEnter \/ GenRound \/ GenReturn

SpecStack == InitStack /\ [][NextStack]_vars
\* The calls are run: a step that can be taken is taken.
SpecStackLive == SpecStack /\ WF_vars(NextStack)

(***************************************************************************)
(* C25                                                                     *)
(***************************************************************************)
\* The greatest of a finite set of naturals, 0 for the empty set.
Greatest(S) == IF S = {} THEN 0 ELSE CHOOSE n \in S : \A m \in S : m <= n

RECURSIVE ObjectNesting(_), CommonNesting(_, _), NonNullMembers(_), ObjectPairs(_, _)
\* The object-nesting depth of tree t: 0 for a value that is no object, and
\* one more than the deepest member for an object.
ObjectNesting(t) ==
  IF t.tag # "obj" THEN 0
  ELSE 1 + Greatest({ObjectNesting(t.mem[k]) : k \in DOMAIN t.mem})
\* The depth to which trees s and t are objects at the same keys.
CommonNesting(s, t) ==
  IF s.tag # "obj" \/ t.tag # "obj" THEN 0
  ELSE 1 + Greatest({CommonNesting(s.mem[k], t.mem[k]) :
                       k \in (DOMAIN s.mem) \cap (DOMAIN t.mem)})
\* The sum of f over the keys of sequence ks.
RECURSIVE Sum(_, _)
Sum(f, ks) == IF ks = <<>> THEN 0 ELSE f[Head(ks)] + Sum(f, Tail(ks))
\* The number of non-null members of tree p and of its nested objects.
NonNullMembers(p) ==
  IF p.tag # "obj" THEN 0
  ELSE LET ks == InOrder({k \in DOMAIN p.mem : p.mem[k].tag # "null"}, AllKeys)
       IN  Sum([k \in DOMAIN p.mem |-> 1 + NonNullMembers(p.mem[k])], ks)
\* The number of keys at which trees s and t both hold an object, in s and
\* t and in the objects at such keys.
ObjectPairs(s, t) ==
  IF s.tag # "obj" \/ t.tag # "obj" THEN 0
  ELSE LET both == {k \in (DOMAIN s.mem) \cap (DOMAIN t.mem) :
                      s.mem[k].tag = "obj" /\ t.mem[k].tag = "obj"}
       IN  Sum([k \in both |-> 1 + ObjectPairs(s.mem[k], t.mem[k])],
               InOrder(both, AllKeys))

\* The recursion depth: the calls in progress inside the outermost one.
Depth == IF calls = <<>> THEN 0 ELSE Len(calls) - 1
\* The recursion of mergePatch is never deeper than the object nesting of
\* the patch, and it makes one nested call for each non-null member of the
\* patch and of its nested objects; the recursion of generatePatch is never
\* deeper than source and target are objects at the same keys, and it makes
\* one nested call for each key at which both hold an object.
DepthBounded ==
  /\ rep = "merge" =>
       /\ Depth <= ObjectNesting(preB)
       /\ first <= 1 + NonNullMembers(preB)
       /\ phase = "done" => first = 1 + NonNullMembers(preB)
  /\ rep = "generate" =>
       /\ (Depth = 0 \/ Depth < CommonNesting(preA, preB))
       /\ first <= 1 + ObjectPairs(preA, preB)
       /\ phase = "done" => first = 1 + ObjectPairs(preA, preB)

\* C25: mergePatch and generatePatch terminate, and their recursion depth
\* is bounded by the nesting of the documents: every call that is run
\* returns, and at every moment the depth is within the bound.
C25_Terminates ==
  /\ [](phase \in {"running", "done"} => DepthBounded)
  /\ <>(phase = "done")
\* mergePatch has returned after a recursion of depth three on a patch
\* nested to depth three, into a target that is no object.
C25_Witness ==
  /\ phase = "done" /\ rep = "merge"
  /\ preA = NumV("1")
  /\ preB = TObj([a |-> TObj([a |-> TObj([b |-> NullV]), b |-> TArr(<<NumV("1")>>)]), b |-> NumV("1")])
  /\ first = 5
  /\ Read(heap, res) = TObj([a |-> TObj([a |-> EmptyObj, b |-> TArr(<<NumV("1")>>)]), b |-> NumV("1")])

====
